---- MODULE Spec2Model ----
(***************************************************************************)
(* A model of the arkflow stream runtime                                   *)
(* (crates/arkflow-core/src/stream/mod.rs): Stream::run with its ingest    *)
(* task (Stream::do_input), its worker tasks, its sink loop and            *)
(* Stream::close.  The components behind the Input, Pipeline and Output    *)
(* traits are the environment: every result their methods may return is a  *)
(* nondeterministic choice of the action that calls them.                  *)
(***************************************************************************)
EXTENDS Integers, Sequences, FiniteSets, TLC

\* ------------------------------------------------------------------ bounds
\* Number of batches input.read hands out before it only returns errors.
MaxBatches == 3
\* The failed connects of one reconnect episode are counted up to this
\* many ("this many or more"); the episode itself may go on for ever.
MaxFails == 1
\* Number of batches input.read hands out in a burst: more than a stream
\* with one worker has places for (4 + 4 queued, one in the ingest task,
\* one in the worker, one in the sink loop).
MaxBurst == 12
\* Number of threads that call the registries' functions.
MaxCallers == 2
\* Number of write calls made on a memory buffer.
MaxWrites == 3
\* Number of messages an input adapter's queue holds in the model.
MaxQueued == 2
\* Number of background tasks of one input adapter the model lets run.
MaxTasks == 2
\* Largest HttpOutputConfig.retry_count of the model.
MaxRetries == 2
\* Number of close() calls made on one output.
MaxCloses == 2
\* Number of read() calls made on one SqlInput.
MaxReads == 3
\* Number of process() calls made on one SqlProcessor.
MaxProcessed == 3

\* ------------------------------------------------------------------ inputs
\* The values of thread_num (PipelineConfig.thread_num, >= 1) a stream is
\* built with: one worker, and workers running side by side.
ThreadNums == {1, 2}
\* The lengths of the list pipeline.process returns for one input: a
\* dropped batch, one output, a split.
OutLens == {0, 1, 2}

\* ------------------------------------------------------- program constants
\* flume::bounded(thread_num * 4), for inputQ and for outputQ.
QueueFactor == 4

Batches == 1..MaxBatches
NoBatch == 0

\* Error kinds of arkflow_core::Error that input.read may return and that
\* do_input sends to its `_` arm.
OtherErrors == {"Io", "Serialization", "Read", "Process", "Connection", "Timeout", "Unknown"}
Signals == {"SIGINT", "SIGTERM"}

\* The registries of the claims: BUFFER_BUILDERS (buffer/mod.rs) and the
\* scalar UDFS (processor/udf/scalar_udf.rs); the type tags or UDF names
\* registered, and the builders or UDFs registered under them.
Kinds == {"buffer", "scalar_udf"}
Tags == {"memory", "other"}
Builders == {1, 2}
NoBuilder == 0
Callers == 1..MaxCallers

\* The memory buffer (arkflow-plugin/src/buffer/memory.rs): the values of
\* MemoryBufferConfig.capacity, the schemas of the batches written, the
\* tasks that wait on its Notify (its timer task and the readers).
Capacities == {2, 3}
Schemas == {"s1", "s2"}
Written == 1..MaxWrites
Readers == {1, 2}
TimerTask == 0

\* The input adapters, and what a read of one returns. "EOF" is the
\* end-of-input error: Error::EOF, and Error::Done in input/mqtt.rs.
Adapters == {"http", "modbus", "mqtt", "redis"}
Queued == {"http", "mqtt", "redis"}
ReadResults == {"none", "batch", "EOF", "Connection", "Disconnection",
                "Process"}

VARIABLES
    thread_num,   \* Stream.thread_num
    supply,       \* batches the input has to hand out before it runs dry
    buffer_type,  \* the `type` of the configuration's buffer, or "none"
    buffered,     \* batches written to a buffer and returned by its read
    runPc,        \* where Stream::run is
    runResult,    \* what Stream::run returned: "none", "Ok" or "Err"
    runErr,       \* the call whose error run() returned
    inConnects,   \* input.connect calls made by run() itself
    outConnects,  \* output.connect calls made by run()
    ingestPc,     \* where the ingest task (do_input) is
    held,         \* the batch do_input holds between read and send
    produced,     \* batches input.read has returned so far
    lastErr,      \* the error do_input is logging in its `_` arm
    pendingSig,   \* a delivered signal do_input has not received yet
    stopReason,   \* why do_input left its loop
    connOks,      \* successful input.connect calls of the reconnect episode
    connFails,    \* failed input.connect calls of the reconnect episode
    inputQ,       \* the channel IN (input_sender/input_receiver), oldest first
    outputQ,      \* the channel OUT: (batch, length of its output list)
    processing,   \* the input batches workers hold in pipeline.process
    sending,      \* the (batch, outputs) workers hold in send_async to OUT
    exited,       \* number of worker tasks that have ended
    sinkItem,     \* the outputQ item the sink loop is writing
    sinkIdx,      \* position of the for loop in msg.0
    success_cnt,  \* the sink loop's success_cnt
    sinkLog,      \* the positions of msg.0 written so far, in call order
    sinkFailed,   \* whether some output.write for sinkItem returned Err
    writing,      \* output.write calls made that have not returned
    outcome,      \* per batch, once handled: "delivered" (processed and
                  \* every output written) or "failed" (anything else)
    acks,         \* per batch: number of ack() invocations
    closeCalls,   \* the component close() calls made, in order
    registry,     \* per kind, the HashMap behind the RwLock: tag -> builder
    poisoned,     \* per kind, whether the RwLock is poisoned
    lockHolder,   \* per kind, the caller holding the write lock, or 0
    callPc,       \* per caller: "idle", "locked" or "panicked"
    call,         \* per caller: the call it is in or made last, its result
    firstReg,     \* per kind and tag, the builder of the first registration
                  \* that examined the registry
    capacity,     \* MemoryBuffer.config.capacity
    memQueue,     \* MemoryBuffer.queue, front first: [id, schema] records
    notifyWaiters,\* MemoryBuffer.notify: the tasks waiting, oldest first
    notifyPermit, \* MemoryBuffer.notify: the permit notify_one stores
    closeToken,   \* MemoryBuffer.close: whether it is cancelled
    timerPc,      \* the timer task: "loop", "select" or "done"
    readPc,       \* per reader: "idle", "waiting" or "notified"
    readResult,   \* per reader: what its last read returned
    wokenBy,      \* per reader: what notified the read it is in
    pushing,      \* the pair of the write call between its check and its push
    written,      \* write calls made so far
    delivered,    \* per pair: merged batches returned that hold it
    dropped,      \* pairs taken from the queue by a read that failed
    srcAcks,      \* per pair: ack() calls on its source ack
    waitingAtClose, \* the readers that were waiting when close() was called
    inKind,       \* the input adapter
    inClient,     \* HttpInput.connected; the others: client is Some
    inTasks,      \* the HTTP server tasks or MQTT / Redis pollers that run
    inQueue,      \* the adapter's queue: "msg" and "err" items
    inClosed,     \* close() has returned
    inReadPc,     \* "idle", or "reading": a read waits on the queue
    inSignalled,  \* MQTT: the waiting read's close_rx holds the close message
    inResult,     \* what the last read returned
    inAfterClose, \* the last read was called after close() had returned
    outKind,      \* the output: "http", "kafka" or "sql"
    outClient,    \* client / producer / conn_lock is Some
    outConnected, \* HttpOutput.connected, SqlOutput.connected
    outCancelled, \* SqlOutput.cancellation_token is cancelled
    outCloses,    \* the results of the close() calls that returned, in order
    retryCfg,     \* HttpOutputConfig.retry_count
    methodOk,     \* HttpOutputConfig.method is one of the five supported
    outPc,        \* "idle", or where HttpOutput::write is: "send",
                  \* "request", "sleep"
    outLen,       \* payloads of the batch of the last write call
    outLeft,      \* payloads of the write in progress not yet sent
    retry_count,  \* send's retry_count
    last_error,   \* send's last_error: "None", "Process" or "Connection"
    attempts,     \* the outcomes of the requests of the last send, in order
    waits,        \* the sleeps of the last send, in milliseconds, in order
    sendResult,   \* what the last send returned
    outResult,    \* what the last write returned
    outSent,      \* payloads the write in progress / the last write sent
    outAfterClose, \* the last write was called after a close() had returned
    sqlConfig,    \* SqlInput.sql_config: "valid", or which statement is bad
    read,         \* SqlInput.read, the AtomicBool
    sqlPc,        \* per caller: "idle", or "query" between load and store
    sqlResult,    \* per caller: what its last read returned
    sqlCalls,     \* read() calls made
    queries,      \* reads that ran their statements
    returned,     \* reads that returned Ok
    window_type,  \* WindowConfig.window_type
    size_ms,      \* WindowConfig.size_ms
    slide_ms,     \* WindowConfig.slide_ms, NoMs for None
    timeout_ms,   \* WindowConfig.timeout_ms, NoMs for None
    watermark_delay_ms, \* WindowConfig.watermark_delay_ms
    window_data,  \* SqlState.window_data: [id, schema] records
    last_timestamp, \* SqlState.last_timestamp
    stateLock,    \* the task that holds the Mutex of the state, or 0
    procPc,       \* per task: "idle", "wait" (for the lock) or "query"
    procArg,      \* per task: the batch parse_input made of its message
    procResult,   \* per task: what apply_window did and process returned
    processed     \* process() calls made

runVars    == <<runPc, runResult, runErr, inConnects, outConnects, closeCalls>>
ingestVars == <<ingestPc, held, produced, lastErr, stopReason, connOks, connFails>>
workerVars == <<processing, sending, exited>>
sinkVars   == <<sinkItem, sinkIdx, success_cnt, sinkLog, sinkFailed, writing>>
histVars   == <<outcome, acks>>
config     == <<thread_num, supply, buffer_type>>
registryVars == <<registry, poisoned, lockHolder, callPc, call, firstReg>>
\* What no step of a stream changes: its configuration, the registries
\* and, Stream having no buffer to call, the batches a buffer has handled.
memVars == <<capacity, memQueue, notifyWaiters, notifyPermit, closeToken, timerPc,
             readPc, readResult, wokenBy, pushing, written, delivered, dropped,
             srcAcks, waitingAtClose>>
adapterVars == <<inKind, inClient, inTasks, inQueue, inClosed, inReadPc,
                 inSignalled, inResult, inAfterClose>>
outputVars == <<outKind, outClient, outConnected, outCancelled, outCloses,
                retryCfg, methodOk, outPc, outLen, outLeft, retry_count,
                last_error, attempts, waits, sendResult, outResult, outSent,
                outAfterClose>>
sqlInputVars == <<sqlConfig, read, sqlPc, sqlResult, sqlCalls, queries, returned>>
sqlProcVars == <<window_type, size_ms, slide_ms, timeout_ms, watermark_delay_ms,
                 window_data, last_timestamp, stateLock, procPc, procArg,
                 procResult, processed>>
pluginVars == <<outputVars, sqlInputVars, sqlProcVars>>
ambient    == <<config, registryVars, buffered, memVars, adapterVars, pluginVars>>
vars == <<ambient, runVars, ingestVars, pendingSig, inputQ, outputQ, workerVars,
          sinkVars, histVars>>

NoItem == [id |-> NoBatch, n |-> 0]

\* Channels that take one item more than asked for.
CapacityOneMore == thread_num * QueueFactor + 1

\* Capacity of inputQ and of outputQ.
Capacity == thread_num * QueueFactor

\* Whether run() has spawned its tasks.
Started == ingestPc # "unspawned"

\* Workers that go back to recv_async() while their send to OUT is pending.
IdleWhileSending ==
    IF Started THEN thread_num - Cardinality(processing) - exited ELSE 0

\* The worker tasks waiting in input_receiver.recv_async(): those spawned
\* that hold nothing and have not ended.
Idle ==
    IF Started
    THEN thread_num - Cardinality(processing) - Cardinality(sending) - exited
    ELSE 0

\* The stream as Stream::new leaves it, before run().
Constructed ==
    /\ buffered = {}
    /\ runPc = "connect_input"
    /\ runResult = "none"
    /\ runErr = "none"
    /\ inConnects = 0
    /\ outConnects = 0
    /\ ingestPc = "unspawned"
    /\ held = NoBatch
    /\ produced = 0
    /\ lastErr = "none"
    /\ pendingSig = "none"
    /\ stopReason = "none"
    /\ connOks = 0
    /\ connFails = 0
    /\ inputQ = <<>>
    /\ outputQ = <<>>
    /\ processing = {}
    /\ sending = {}
    /\ exited = 0
    /\ sinkItem = NoItem
    /\ sinkIdx = 0
    /\ success_cnt = 0
    /\ sinkLog = <<>>
    /\ sinkFailed = FALSE
    /\ writing = 0
    /\ outcome = [b \in 1..supply |-> "none"]
    /\ acks = [b \in 1..supply |-> 0]
    /\ closeCalls = <<>>

NoCall == [op |-> "none", kind |-> "none", tag |-> "none", builder |-> NoBuilder,
           result |-> "none"]

\* The lazy_static registries: empty maps behind fresh locks.
RegistriesEmpty ==
    /\ registry = [k \in Kinds |-> [t \in Tags |-> NoBuilder]]
    /\ poisoned = [k \in Kinds |-> FALSE]
    /\ lockHolder = [k \in Kinds |-> 0]
    /\ callPc = [c \in Callers |-> "idle"]
    /\ call = [c \in Callers |-> NoCall]
    /\ firstReg = [k \in Kinds |-> [t \in Tags |-> NoBuilder]]

NoResult == [kind |-> "none", ids |-> <<>>, rows |-> 0]

\* MemoryBuffer::new: an empty queue, a Notify with no permit, a token not
\* cancelled, and the timer task spawned.
MemoryBufferNew(c) ==
    /\ capacity = c
    /\ memQueue = <<>>
    /\ notifyWaiters = <<>>
    /\ notifyPermit = FALSE
    /\ closeToken = FALSE
    /\ timerPc = "loop"
    /\ readPc = [r \in Readers |-> "idle"]
    /\ readResult = [r \in Readers |-> NoResult]
    /\ wokenBy = [r \in Readers |-> "none"]
    /\ pushing = {}
    /\ written = 0
    /\ delivered = [b \in Written |-> 0]
    /\ dropped = {}
    /\ srcAcks = [b \in Written |-> 0]
    /\ waitingAtClose = {}

\* A memory buffer nothing calls.
MemoryBufferUnused == MemoryBufferNew(CHOOSE c \in Capacities : TRUE)

\* An input adapter as its new() leaves it.
AdapterNew(a) ==
    /\ inKind = a
    /\ inClient = FALSE
    /\ inTasks = 0
    /\ inQueue = <<>>
    /\ inClosed = FALSE
    /\ inReadPc = "idle"
    /\ inSignalled = FALSE
    /\ inResult = "none"
    /\ inAfterClose = FALSE

\* An input adapter nothing calls.
AdapterUnused == AdapterNew(CHOOSE a \in Adapters : TRUE)

\* An output as its new() leaves it, before a write.
OutputNew(k, retries, method) ==
    /\ outKind = k
    /\ outClient = FALSE
    /\ outConnected = FALSE
    /\ outCancelled = FALSE
    /\ outCloses = <<>>
    /\ retryCfg = retries
    /\ methodOk = method
    /\ outPc = "idle"
    /\ outLen = 0
    /\ outLeft = 0
    /\ retry_count = 0
    /\ last_error = "None"
    /\ attempts = <<>>
    /\ waits = <<>>
    /\ sendResult = "none"
    /\ outResult = "none"
    /\ outSent = 0
    /\ outAfterClose = FALSE

\* An output nothing calls.
OutputUnused == OutputNew("http", 0, TRUE)

\* The tasks that call read on one SqlInput.
SqlCallers == {1, 2}

\* A SqlInput as its new() leaves it.
SqlInputNew(cfg) ==
    /\ sqlConfig = cfg
    /\ read = FALSE
    /\ sqlPc = [t \in SqlCallers |-> "idle"]
    /\ sqlResult = [t \in SqlCallers |-> "none"]
    /\ sqlCalls = 0
    /\ queries = 0
    /\ returned = 0

\* A SqlInput nothing calls.
SqlInputUnused == SqlInputNew("valid")

\* The worker tasks that call process on one SqlProcessor.
SqlWorkers == {1, 2}

\* Option<u64> None.
NoMs == 0

NoArg == [id |-> 0, ts |-> 0, timed |-> FALSE, schema |-> "none"]
NoProcResult == [kind |-> "none", timed |-> FALSE, trig |-> FALSE, ts |-> 0,
                 over |-> <<>>]

\* A windowed SqlProcessor as its new() leaves it.
SqlProcessorNew(type, size, slide, timeout, delay) ==
    /\ window_type = type
    /\ size_ms = size
    /\ slide_ms = slide
    /\ timeout_ms = timeout
    /\ watermark_delay_ms = delay
    /\ window_data = <<>>
    /\ last_timestamp = 0
    /\ stateLock = 0
    /\ procPc = [t \in SqlWorkers |-> "idle"]
    /\ procArg = [t \in SqlWorkers |-> NoArg]
    /\ procResult = [t \in SqlWorkers |-> NoProcResult]
    /\ processed = 0

\* A SqlProcessor nothing calls.
SqlProcessorUnused == SqlProcessorNew("tumbling", 1, NoMs, NoMs, 0)

\* The plugins nothing calls.
PluginsUnused ==
    /\ OutputUnused
    /\ SqlInputUnused
    /\ SqlProcessorUnused

Init ==
    /\ thread_num \in ThreadNums
    /\ supply = MaxBatches
    /\ buffer_type = "none"
    /\ Constructed
    /\ RegistriesEmpty
    /\ MemoryBufferUnused
    /\ AdapterUnused
    /\ PluginsUnused

\* ---------------------------------------------------------------- startup

\* A run() that goes on to output.connect whatever input.connect returned.
AfterInputConnectIgnored(ok) == "connect_output"

\* The `?` of run()'s two connect calls: where run() goes after a connect.
AfterInputConnect(ok) == IF ok THEN "connect_output" ELSE "done"

AfterOutputConnect(ok) == IF ok THEN "sink_recv" ELSE "done"

\* run(): self.input.connect().await?
InputConnect ==
    /\ runPc = "connect_input"
    /\ inConnects' = inConnects + 1
    /\ \E ok \in BOOLEAN :
          /\ runPc' = AfterInputConnect(ok)
          /\ IF ok
             THEN UNCHANGED <<runResult, runErr>>
             ELSE /\ runResult' = "Err"
                  /\ runErr' = "input.connect"
    /\ UNCHANGED <<ambient, outConnects, closeCalls, ingestVars, pendingSig,
                   inputQ, outputQ, workerVars, sinkVars, histVars>>

\* run(): self.output.connect().await?, and on success everything up to the
\* first recv_async of the sink loop: the two channels, tokio::spawn of
\* do_input and of thread_num workers, drop(output_sender).
OutputConnect ==
    /\ runPc = "connect_output"
    /\ outConnects' = outConnects + 1
    /\ \E ok \in BOOLEAN :
          /\ runPc' = AfterOutputConnect(ok)
          /\ ingestPc' = IF runPc' = "sink_recv" THEN "select" ELSE ingestPc
          /\ IF ok
             THEN UNCHANGED <<runResult, runErr>>
             ELSE /\ runResult' = "Err"
                  /\ runErr' = "output.connect"
    /\ UNCHANGED <<ambient, inConnects, closeCalls, held, produced, lastErr,
                   stopReason, connOks, connFails, pendingSig, inputQ, outputQ,
                   workerVars, sinkVars, histVars>>

\* ------------------------------------------------------------ ingest task

\* A SIGINT or SIGTERM reaches the process while do_input's two Signal
\* streams exist; it stays pending until a select! polls them.
Signal ==
    /\ ingestPc \notin {"unspawned", "stopped"}
    /\ pendingSig = "none"
    /\ \E s \in Signals : pendingSig' = s
    /\ UNCHANGED <<ambient, runVars, ingestVars, inputQ, outputQ, workerVars,
                   sinkVars, histVars>>

\* do_input returns (break or return): its input_sender and its Signal
\* streams are dropped.
IngestStop(why) ==
    /\ ingestPc' = "stopped"
    /\ stopReason' = why
    /\ pendingSig' = "none"
    /\ lastErr' = "none"

\* select!: the sigint.recv() arm.
IngestSigint ==
    /\ ingestPc = "select"
    /\ pendingSig = "SIGINT"
    /\ IngestStop("SIGINT")
    /\ UNCHANGED <<ambient, runVars, held, produced, connOks, connFails,
                   inputQ, outputQ, workerVars, sinkVars, histVars>>

\* select!: the sigterm.recv() arm.
IngestSigterm ==
    /\ ingestPc = "select"
    /\ pendingSig = "SIGTERM"
    /\ IngestStop("SIGTERM")
    /\ UNCHANGED <<ambient, runVars, held, produced, connOks, connFails,
                   inputQ, outputQ, workerVars, sinkVars, histVars>>

\* A do_input that polls input.read() again while its send is pending.
ReadPolledWhileSending(pc) == pc \in {"select", "send"}

\* input.read() is polled in the select! only, which do_input reaches again
\* after send_async(msg).await has returned.
ReadPolled(pc) == pc = "select"

\* select!: input.read() returned Ok(msg); do_input now sends it to IN.
IngestRead ==
    /\ ReadPolled(ingestPc)
    /\ produced < supply
    /\ produced' = produced + 1
    /\ held' = produced + 1
    /\ ingestPc' = "send"
    /\ UNCHANGED <<ambient, runVars, lastErr, stopReason, connOks, connFails,
                   pendingSig, inputQ, outputQ, workerVars, sinkVars, histVars>>

\* A channel whose send never waits.
SendReadyAlways(queue) == TRUE

\* send_async on a flume::bounded channel completes when the channel holds
\* fewer items than its capacity, and waits otherwise.
SendReady(queue) == Len(queue) < Capacity

\* input_sender.send_async(msg).await: waits while IN is full.  (Its Err
\* arm needs every input_receiver dropped; run() keeps one until it returns,
\* which is after do_input has dropped the sender.)
IngestSend ==
    /\ ingestPc = "send"
    /\ SendReady(inputQ)
    /\ inputQ' = Append(inputQ, held)
    /\ held' = NoBatch
    /\ ingestPc' = "select"
    /\ UNCHANGED <<ambient, runVars, produced, lastErr, stopReason, connOks,
                   connFails, pendingSig, outputQ, workerVars, sinkVars, histVars>>

\* A dispatch whose Config arm only logs.
ErrorDispatchConfigLogged(e) ==
    CASE e = "EOF" -> "stopped"
      [] e = "Disconnection" -> "reconnect"
      [] OTHER -> "logged"

\* A dispatch that sends Timeout to the Disconnection arm.
ErrorDispatchTimeoutReconnects(e) ==
    CASE e = "EOF" -> "stopped"
      [] e \in {"Disconnection", "Timeout"} -> "reconnect"
      [] e = "Config" -> "stopped"
      [] OTHER -> "logged"

\* The match on the error input.read returned: where do_input goes.
ErrorDispatch(e) ==
    CASE e = "EOF" -> "stopped"
      [] e = "Disconnection" -> "reconnect"
      [] e = "Config" -> "stopped"
      [] OTHER -> "logged"

\* select!: input.read() returned Err(e).
IngestReadErr ==
    /\ ingestPc = "select"
    /\ \E e \in {"EOF", "Disconnection", "Config"} \cup OtherErrors :
          LET next == ErrorDispatch(e) IN
          /\ CASE next = "stopped" ->
                    /\ IngestStop(e)
                    /\ UNCHANGED <<connOks, connFails>>
               [] next = "reconnect" ->
                    /\ ingestPc' = "reconnect"
                    /\ lastErr' = e
                    /\ connOks' = 0
                    /\ connFails' = 0
                    /\ UNCHANGED <<stopReason, pendingSig>>
               [] OTHER ->
                    /\ ingestPc' = next
                    /\ lastErr' = e
                    /\ UNCHANGED <<stopReason, pendingSig, connOks, connFails>>
    /\ UNCHANGED <<ambient, runVars, held, produced, inputQ, outputQ,
                   workerVars, sinkVars, histVars>>

\* The `_` arm: error!("{}", e), then the next turn of the loop.
IngestLogged ==
    /\ ingestPc = "logged"
    /\ ingestPc' = "select"
    /\ lastErr' = "none"
    /\ UNCHANGED <<ambient, runVars, held, produced, stopReason, connOks,
                   connFails, pendingSig, inputQ, outputQ, workerVars, sinkVars,
                   histVars>>

\* A reconnect loop that gives up after one failed connect.
AfterReconnectGivesUp(ok) == IF ok THEN "reconnected" ELSE "select"

\* The reconnect loop's match on input.connect(): where do_input goes.
AfterReconnect(ok) == IF ok THEN "reconnected" ELSE "sleep"

Saturate(n, cap) == IF n < cap THEN n + 1 ELSE cap

\* Error::Disconnection => loop { match input.connect().await ... }
IngestConnect ==
    /\ ingestPc = "reconnect"
    /\ \E ok \in BOOLEAN :
          /\ ingestPc' = AfterReconnect(ok)
          /\ connOks' = IF ok THEN connOks + 1 ELSE connOks
          /\ connFails' = IF ok THEN connFails ELSE Saturate(connFails, MaxFails)
    /\ UNCHANGED <<ambient, runVars, held, produced, lastErr, stopReason,
                   pendingSig, inputQ, outputQ, workerVars, sinkVars, histVars>>

\* tokio::time::sleep(5 s) after a failed connect is over.
IngestSleep ==
    /\ ingestPc = "sleep"
    /\ ingestPc' = "reconnect"
    /\ UNCHANGED <<ambient, runVars, held, produced, lastErr, stopReason,
                   connOks, connFails, pendingSig, inputQ, outputQ, workerVars,
                   sinkVars, histVars>>

\* info!("input reconnected"); break: back to the select!.
IngestReconnected ==
    /\ ingestPc = "reconnected"
    /\ ingestPc' = "select"
    /\ lastErr' = "none"
    /\ connOks' = 0
    /\ connFails' = 0
    /\ UNCHANGED <<ambient, runVars, held, produced, stopReason, pendingSig,
                   inputQ, outputQ, workerVars, sinkVars, histVars>>

Ingest ==
    \/ IngestSigint \/ IngestSigterm \/ IngestRead \/ IngestSend \/ IngestReadErr
    \/ IngestLogged \/ IngestConnect \/ IngestSleep \/ IngestReconnected

\* ----------------------------------------------------------- worker tasks
\* The thread_num worker tasks run the same loop and own nothing but the
\* batch they hold, so the pool is kept as what its members hold.

\* A recv_async() that fails as soon as no sender is left, items or not.
RecvDisconnectedEarly(queue, senders) == senders = 0

\* recv_async() returns Err: the channel is empty and no sender is left.
RecvDisconnected(queue, senders) == queue = <<>> /\ senders = 0

\* An input_sender dropped as soon as the ingest task is spawned.
InputSendersDroppedAtSpawn == IF ingestPc = "unspawned" THEN 1 ELSE 0

\* The input_senders alive: do_input's, until it returns.
InputSenders == IF ingestPc = "stopped" THEN 0 ELSE 1

\* The output_senders alive: one per worker task that has not ended (run()
\* drops its own before the sink loop).
OutputSenders == IF Started THEN thread_num - exited ELSE 1

\* input_receiver.recv_async() returned Ok((msg, ack)) to an idle worker.
WorkerRecv ==
    /\ Idle > 0
    /\ inputQ # <<>>
    /\ processing' = processing \cup {Head(inputQ)}
    /\ inputQ' = Tail(inputQ)
    /\ UNCHANGED <<ambient, runVars, ingestVars, pendingSig, outputQ, sending,
                   exited, sinkVars, histVars>>

\* input_receiver.recv_async() returned Err: break, the task ends and drops
\* its output_sender.
WorkerExit ==
    /\ Idle > 0
    /\ RecvDisconnected(inputQ, InputSenders)
    /\ exited' = exited + 1
    /\ UNCHANGED <<ambient, runVars, ingestVars, pendingSig, inputQ, outputQ,
                   processing, sending, sinkVars, histVars>>

\* What pipeline.process may return: an error, or a list of batches.
ProcessResults ==
    {[ok |-> FALSE, n |-> 0]} \cup {[ok |-> TRUE, n |-> k] : k \in OutLens}

\* A worker that forwards the (empty) result of a failed process too.
ForwardsAlways(r) == TRUE

\* A worker that keeps an empty list of outputs to itself.
ForwardsNonEmpty(r) == r.ok /\ r.n > 0

\* match processed: whether the worker sends (msgs, ack) to OUT.
Forwards(r) == r.ok

\* pipeline.process(msg).await returned r to the worker holding b.
WorkerProcess ==
    \E b \in processing, r \in ProcessResults :
        /\ processing' = processing \ {b}
        /\ outcome' = IF r.ok THEN outcome ELSE [outcome EXCEPT ![b] = "failed"]
        /\ sending' = IF Forwards(r)
                      THEN sending \cup {[id |-> b, n |-> r.n]}
                      ELSE sending
        /\ UNCHANGED <<ambient, runVars, ingestVars, pendingSig, inputQ,
                       outputQ, exited, sinkVars, acks>>

\* output_sender.send_async((msgs, ack)).await: waits while OUT is full.
\* (Its Err arm needs output_receiver dropped, which run() keeps until it
\* returns, after every worker has ended.)
WorkerSend ==
    \E item \in sending :
        /\ SendReady(outputQ)
        /\ outputQ' = Append(outputQ, item)
        /\ sending' = sending \ {item}
        /\ UNCHANGED <<ambient, runVars, ingestVars, pendingSig, inputQ,
                       processing, exited, sinkVars, histVars>>

Worker == WorkerRecv \/ WorkerExit \/ WorkerProcess \/ WorkerSend

\* -------------------------------------------------------------- sink loop

\* A for loop that starts every write of the item without awaiting any.
WritesIssuedUnawaited(idx, n) == IF idx = 1 THEN n ELSE 0

\* for x in &msg.0 { self.output.write(x).await }: the write calls the loop
\* makes on reaching position idx of a list of n: that of msg.0[idx], which
\* it awaits before it moves on.
WritesIssued(idx, n) == IF idx <= n THEN 1 ELSE 0

\* output_receiver.recv_async() returned Ok(msg): size, success_cnt = 0, and
\* the for loop calls its first write.
SinkRecv ==
    /\ runPc = "sink_recv"
    /\ outputQ # <<>>
    /\ sinkItem' = Head(outputQ)
    /\ outputQ' = Tail(outputQ)
    /\ sinkIdx' = 1
    /\ success_cnt' = 0
    /\ sinkLog' = <<>>
    /\ sinkFailed' = FALSE
    /\ writing' = writing + WritesIssued(1, Head(outputQ).n)
    /\ runPc' = "sink_write"
    /\ UNCHANGED <<ambient, runResult, runErr, inConnects, outConnects,
                   closeCalls, ingestVars, pendingSig, inputQ, workerVars,
                   histVars>>

\* A for loop that breaks at the first failed write.
NextWriteBreaks(idx, n, ok) == IF ok THEN idx + 1 ELSE n + 1

\* for x in &msg.0: the position after the write of msg.0[idx] returned.
NextWrite(idx, n, ok) == idx + 1

\* One turn of the for loop: self.output.write(x).await returns, and the
\* loop goes on to its next position.
SinkWrite ==
    /\ runPc = "sink_write"
    /\ sinkIdx <= sinkItem.n
    /\ \E ok \in BOOLEAN :
          /\ sinkLog' = Append(sinkLog, sinkIdx)
          /\ sinkFailed' = (sinkFailed \/ ~ok)
          /\ success_cnt' = IF ok THEN success_cnt + 1 ELSE success_cnt
          /\ sinkIdx' = NextWrite(sinkIdx, sinkItem.n, ok)
          /\ writing' = writing - 1 + WritesIssued(sinkIdx', sinkItem.n)
    /\ UNCHANGED <<ambient, runVars, ingestVars, pendingSig, inputQ, outputQ,
                   workerVars, sinkItem, histVars>>

\* An ack decision that is content with one successful write.
AckDecisionAnySuccess(size, cnt) == cnt > 0

\* if *size == success_cnt
AckDecision(size, cnt) == size = cnt

\* Whether every batch of the item was written and no write failed.
AllWritten(n, log, failed) ==
    /\ ~failed
    /\ \A i \in 1..n : \E k \in 1..Len(log) : log[k] = i

\* After the for loop: msg.1.ack().await when the counts agree, then the
\* next turn of the sink loop.
SinkAck ==
    /\ runPc = "sink_write"
    /\ sinkIdx > sinkItem.n
    /\ acks' = [acks EXCEPT ![sinkItem.id] =
                   IF AckDecision(sinkItem.n, success_cnt) THEN @ + 1 ELSE @]
    /\ outcome' = [outcome EXCEPT ![sinkItem.id] =
                   IF @ = "none" /\ AllWritten(sinkItem.n, sinkLog, sinkFailed)
                   THEN "delivered" ELSE "failed"]
    /\ sinkItem' = NoItem
    /\ sinkIdx' = 0
    /\ success_cnt' = 0
    /\ sinkLog' = <<>>
    /\ sinkFailed' = FALSE
    /\ writing' = writing
    /\ runPc' = "sink_recv"
    /\ UNCHANGED <<ambient, runResult, runErr, inConnects, outConnects,
                   closeCalls, ingestVars, pendingSig, inputQ, outputQ,
                   workerVars>>

\* output_receiver.recv_async() returned Err: break; wg.wait(); and run()
\* is about to call self.close().
SinkExit ==
    /\ runPc = "sink_recv"
    /\ RecvDisconnected(outputQ, OutputSenders)
    /\ runPc' = "close"
    /\ UNCHANGED <<ambient, runResult, runErr, inConnects, outConnects,
                   closeCalls, ingestVars, pendingSig, inputQ, outputQ,
                   workerVars, sinkVars, histVars>>

\* ----------------------------------------------------------------- close

\* The order of Stream::close.
CloseOrder == <<"input", "pipeline", "output">>

\* Stream::close with its three `?`: the closes called when the close of
\* component number failed is the first to fail (0: none fails).
CloseCallsMade(failed) ==
    IF failed = 0 THEN CloseOrder ELSE SubSeq(CloseOrder, 1, failed)

\* run(): self.close().await?; Ok(())
Close ==
    /\ runPc = "close"
    /\ \E failed \in 0..Len(CloseOrder) :
          /\ closeCalls' = CloseCallsMade(failed)
          /\ runResult' = IF failed = 0 THEN "Ok" ELSE "Err"
          /\ runErr' = IF failed = 0 THEN "none" ELSE CloseOrder[failed] \o ".close"
    /\ runPc' = "done"
    /\ UNCHANGED <<ambient, inConnects, outConnects, ingestVars, pendingSig,
                   inputQ, outputQ, workerVars, sinkVars, histVars>>

Sink == SinkRecv \/ SinkWrite \/ SinkAck \/ SinkExit

Next ==
    \/ InputConnect \/ OutputConnect
    \/ Signal
    \/ Ingest
    \/ Worker
    \/ Sink
    \/ Close

Spec == Init /\ [][Next]_vars

\* The scheduling of the tokio runtime: a task that can take a step takes
\* one; select! polls its ready arms in random order, so a signal arm that
\* is ready again and again is taken.
FairSpec ==
    /\ Spec
    /\ WF_vars(InputConnect \/ OutputConnect \/ Sink \/ Close)
    /\ WF_vars(Ingest)
    /\ WF_vars(Worker)
    /\ SF_vars(IngestSigint)
    /\ SF_vars(IngestSigterm)

\* ------------------------------------------------------------- registries
\* register_buffer_builder (buffer/mod.rs), BufferConfig::build, and
\* register of the scalar UDFs (scalar_udf.rs), called from any thread.
\* A call takes the registry's RwLock, so the calls on one registry happen
\* one after the other; a caller that panics is gone.

streamVars == <<config, buffered, runVars, ingestVars, pendingSig, inputQ, outputQ,
                workerVars, sinkVars, histVars>>

\* A registration that never finds the tag taken (HashMap::insert replaces).
RejectsNever(map, tag) == FALSE

\* builders.contains_key(type_name), udfs.contains_key(name)
Rejects(map, tag) == map[tag] # NoBuilder

\* BUFFER_BUILDERS.write().unwrap() / UDFS.write().map_err(..)?: the caller
\* waits while another holds the lock; a poisoned lock makes unwrap panic
\* and map_err return Error::Config.
RegisterLock(c) ==
    /\ callPc[c] = "idle"
    /\ \E k \in Kinds, t \in Tags, b \in Builders :
          /\ lockHolder[k] = 0
          /\ IF poisoned[k]
             THEN /\ callPc' = [callPc EXCEPT ![c] =
                                   IF k = "buffer" THEN "panicked" ELSE "idle"]
                  /\ call' = [call EXCEPT ![c] =
                                 [NoCall EXCEPT !.op = "register", !.kind = k,
                                     !.result = IF k = "buffer" THEN "panic" ELSE "Err"]]
                  /\ UNCHANGED <<lockHolder, firstReg>>
             ELSE /\ callPc' = [callPc EXCEPT ![c] = "locked"]
                  /\ lockHolder' = [lockHolder EXCEPT ![k] = c]
                  /\ call' = [call EXCEPT ![c] =
                                 [op |-> "register", kind |-> k, tag |-> t,
                                  builder |-> b, result |-> "none"]]
                  /\ firstReg' = [firstReg EXCEPT ![k][t] =
                                     IF @ = NoBuilder THEN b ELSE @]
    /\ UNCHANGED <<registry, poisoned, streamVars, pluginVars, memVars,
                   adapterVars>>

\* Under the lock: the tag is taken, and the buffer registry panics (its
\* guard, dropped by the unwinding, poisons the lock) while the UDF
\* registry returns Error::Config; or the tag is free and is inserted.
RegisterDecide(c) ==
    /\ callPc[c] = "locked"
    /\ LET k == call[c].kind
           t == call[c].tag
       IN  /\ lockHolder' = [lockHolder EXCEPT ![k] = 0]
           /\ IF Rejects(registry[k], t)
              THEN /\ UNCHANGED registry
                   /\ poisoned' = [poisoned EXCEPT ![k] = (k = "buffer") \/ @]
                   /\ callPc' = [callPc EXCEPT ![c] =
                                    IF k = "buffer" THEN "panicked" ELSE "idle"]
                   /\ call' = [call EXCEPT ![c].result =
                                    IF k = "buffer" THEN "panic" ELSE "Err"]
              ELSE /\ registry' = [registry EXCEPT ![k][t] = call[c].builder]
                   /\ UNCHANGED poisoned
                   /\ callPc' = [callPc EXCEPT ![c] = "idle"]
                   /\ call' = [call EXCEPT ![c].result = "Ok"]
    /\ UNCHANGED <<firstReg, streamVars, pluginVars, memVars,
                   adapterVars>>

\* BufferConfig::build: BUFFER_BUILDERS.read().unwrap(), then the builder
\* registered under buffer_type, or Error::Config for an unknown type.
BufferBuild(c) ==
    /\ callPc[c] = "idle"
    /\ lockHolder["buffer"] = 0
    /\ \E t \in Tags :
          IF poisoned["buffer"]
          THEN /\ callPc' = [callPc EXCEPT ![c] = "panicked"]
               /\ call' = [call EXCEPT ![c] =
                              [NoCall EXCEPT !.op = "build", !.kind = "buffer",
                                             !.result = "panic"]]
          ELSE /\ UNCHANGED callPc
               /\ call' = [call EXCEPT ![c] =
                              [op |-> "build", kind |-> "buffer", tag |-> t,
                               builder |-> registry["buffer"][t],
                               result |-> IF registry["buffer"][t] # NoBuilder
                                          THEN "Ok" ELSE "Err"]]
    /\ UNCHANGED <<registry, poisoned, lockHolder, firstReg, streamVars, pluginVars, memVars,
                   adapterVars>>

RegistryNext ==
    \E c \in Callers : RegisterLock(c) \/ RegisterDecide(c) \/ BufferBuild(c)

RegistryInit == Init /\ thread_num = 1

RegistrySpec == RegistryInit /\ [][RegistryNext]_vars

\* --------------------------------------------------------- buffer configured
\* A stream built from a configuration that names a buffer.  StreamConfig
\* has the fields input, pipeline and output only, so the `buffer` key is
\* dropped when the configuration is read, and StreamConfig::build makes
\* the same Stream as without it.
BufferedInit ==
    /\ thread_num = 1
    /\ supply = MaxBatches
    /\ buffer_type = "memory"
    /\ Constructed
    /\ RegistriesEmpty
    /\ MemoryBufferUnused
    /\ AdapterUnused
    /\ PluginsUnused

BufferedSpec == BufferedInit /\ [][Next]_vars

\* ------------------------------------------------------------------ burst
\* A stream whose components do not fail, fed more batches than its queues
\* hold: input.read returns Ok until the input runs dry and EOF then,
\* pipeline.process returns one batch, write, connect and close return Ok.
\* A signal may still stop the ingest task at any time.
BurstThreadNums == {1}

BurstInit ==
    /\ thread_num \in BurstThreadNums
    /\ supply = MaxBurst
    /\ buffer_type = "none"
    /\ Constructed
    /\ RegistriesEmpty
    /\ MemoryBufferUnused
    /\ AdapterUnused
    /\ PluginsUnused

NoFault ==
    /\ runResult # "Err"
    /\ lastErr = "none"
    /\ stopReason \in {"none", "EOF"} \cup Signals
    /\ stopReason = "EOF" => produced = supply
    /\ \A it \in sending : it.n = 1
    /\ \A b \in 1..supply : outcome[b] # "failed"

BurstNext ==
    \/ InputConnect /\ NoFault'
    \/ OutputConnect /\ NoFault'
    \/ Signal /\ NoFault'
    \/ IngestSigint /\ NoFault'
    \/ IngestSigterm /\ NoFault'
    \/ IngestRead /\ NoFault'
    \/ IngestSend /\ NoFault'
    \/ IngestReadErr /\ NoFault'
    \/ WorkerRecv /\ NoFault'
    \/ WorkerExit /\ NoFault'
    \/ WorkerProcess /\ NoFault'
    \/ WorkerSend /\ NoFault'
    \/ SinkRecv /\ NoFault'
    \/ SinkWrite /\ NoFault'
    \/ SinkAck /\ NoFault'
    \/ SinkExit /\ NoFault'
    \/ Close /\ NoFault'

BurstSpec == BurstInit /\ [][BurstNext]_vars

\* ------------------------------------------------------------ memory buffer

\* RecordBatch::num_rows of the batch of pair b.
RowsOf(b) == b

RECURSIVE SumRows(_)
SumRows(items) ==
    IF items = <<>> THEN 0 ELSE RowsOf(Head(items).id) + SumRows(Tail(items))

RECURSIVE Reversed(_)
Reversed(q) ==
    IF q = <<>> THEN <<>> ELSE Append(Reversed(Tail(q)), Head(q))

\* A loop that pops one pair only.
PoppedBackOnce(q) == <<q[Len(q)]>>

\* A loop that takes the pairs from the front.
PoppedFront(q) == q

\* The loop of pop_back calls: the pairs of the queue, the back one first.
PoppedBack(q) == Reversed(q)

\* concat_batches(&schema, &messages): an error when a batch is not of the
\* schema, else one batch of all the rows.
ConcatBatches(schema, items) ==
    IF \A i \in 1..Len(items) : items[i].schema = schema
    THEN [ok |-> TRUE, rows |-> SumRows(items)]
    ELSE [ok |-> FALSE, rows |-> 0]

\* An ArrayAck that stops after its first source ack.
AckTargetsFirstOnly(ids) == {ids[1]}

\* ArrayAck::ack: the source acks in the order `for ack in self.0.iter()`
\* calls them.
AckOrder(ids) == ids

\* ArrayAck::ack: the source acks it calls ack() on.
AckTargets(ids) == {AckOrder(ids)[i] : i \in 1..Len(ids)}

\* write: the test made on the queue length before the push.
NotifiesAt(len, cap) == len >= cap - 1

\* notify_waiters: every reader that waits is woken.
NotifyWaiters(pcs) ==
    [r \in Readers |-> IF pcs[r] = "waiting" THEN "notified" ELSE pcs[r]]

\* A timer arm that notifies nobody.
OnTimerSilent(pcs) == pcs

\* The timer arm of the select!.
OnTimer(pcs) == NotifyWaiters(pcs)

\* A cancelled arm that only breaks.
OnCancelledBreakOnly(pcs) == pcs

\* The cancelled arm of the select!.
OnCancelled(pcs) == NotifyWaiters(pcs)

\* What notified each reader, after a step that takes the readers from pcs
\* to next and wakes them for the given reason.
WokenFor(pcs, next, reason) ==
    [r \in Readers |->
        IF pcs[r] = "waiting" /\ next[r] = "notified" THEN reason
        ELSE wokenBy[r]]

\* The waiters left once the timer task's Notified is dropped and the
\* readers of pcs that no longer wait are gone.
StillWaiting(ws, pcs) ==
    SelectSeq(ws, LAMBDA w : w # TimerTask /\ pcs[w] = "waiting")

\* The timer task polls notified() for the first time: it takes a stored
\* permit ("reset timer") or becomes a waiter.
TimerSelect ==
    /\ timerPc = "loop"
    /\ IF notifyPermit
       THEN /\ notifyPermit' = FALSE
            /\ UNCHANGED <<notifyWaiters, timerPc>>
       ELSE /\ notifyWaiters' = Append(notifyWaiters, TimerTask)
            /\ timerPc' = "select"
            /\ UNCHANGED notifyPermit
    /\ UNCHANGED <<capacity, memQueue, closeToken, readPc, readResult,
                   wokenBy, pushing, written, delivered, dropped, srcAcks,
                   waitingAtClose, streamVars, pluginVars, registryVars, adapterVars>>

\* The sleep elapses: the Notified of the select! is dropped, which passes
\* on a notify_one it had received, and notify_waiters is called.
TimerElapsed ==
    /\ timerPc \in {"select", "wokenOne", "wokenAll"}
    /\ readPc' = OnTimer(readPc)
    /\ wokenBy' = WokenFor(readPc, readPc', "timer")
    /\ notifyWaiters' = StillWaiting(notifyWaiters, readPc')
    /\ notifyPermit' =
          (notifyPermit \/ (timerPc = "wokenOne" /\ notifyWaiters = <<>>))
    /\ timerPc' = "loop"
    /\ UNCHANGED <<capacity, memQueue, closeToken, readResult, pushing,
                   written, delivered, dropped, srcAcks, waitingAtClose,
                   streamVars, pluginVars, registryVars, adapterVars>>

\* The token is cancelled: notify_waiters and break.
TimerCancelled ==
    /\ timerPc \in {"loop", "select", "wokenOne", "wokenAll"}
    /\ closeToken
    /\ readPc' = OnCancelled(readPc)
    /\ wokenBy' = WokenFor(readPc, readPc', "close")
    /\ notifyWaiters' = StillWaiting(notifyWaiters, readPc')
    /\ notifyPermit' =
          (notifyPermit \/ (timerPc = "wokenOne" /\ notifyWaiters = <<>>))
    /\ timerPc' = "done"
    /\ UNCHANGED <<capacity, memQueue, closeToken, readResult, pushing,
                   written, delivered, dropped, srcAcks, waitingAtClose,
                   streamVars, pluginVars, registryVars, adapterVars>>

\* The notified() arm: "reset timer".
TimerReset ==
    /\ timerPc \in {"wokenOne", "wokenAll"}
    /\ timerPc' = "loop"
    /\ UNCHANGED <<capacity, memQueue, notifyWaiters, notifyPermit,
                   closeToken, readPc, readResult, wokenBy, pushing, written,
                   delivered, dropped, srcAcks, waitingAtClose, streamVars, pluginVars,
                   registryVars, adapterVars>>

Timer == TimerSelect \/ TimerElapsed \/ TimerCancelled \/ TimerReset

\* read: notified().await takes a stored permit or waits.
BufferRead(r) ==
    /\ readPc[r] = "idle"
    /\ IF notifyPermit
       THEN /\ notifyPermit' = FALSE
            /\ readPc' = [readPc EXCEPT ![r] = "notified"]
            /\ wokenBy' = [wokenBy EXCEPT ![r] = "permit"]
            /\ UNCHANGED notifyWaiters
       ELSE /\ notifyWaiters' = Append(notifyWaiters, r)
            /\ readPc' = [readPc EXCEPT ![r] = "waiting"]
            /\ UNCHANGED <<notifyPermit, wokenBy>>
    /\ readResult' = [readResult EXCEPT ![r] = NoResult]
    /\ UNCHANGED <<capacity, memQueue, closeToken, timerPc, pushing, written,
                   delivered, dropped, srcAcks, waitingAtClose, streamVars, pluginVars,
                   registryVars, adapterVars>>

\* process_messages, under the write lock of the queue.
ProcessMessages(r) ==
    /\ readPc[r] = "notified"
    /\ readPc' = [readPc EXCEPT ![r] = "idle"]
    /\ wokenBy' = [wokenBy EXCEPT ![r] = "none"]
    /\ waitingAtClose' = waitingAtClose \ {r}
    /\ IF memQueue = <<>>
       THEN /\ readResult' = [readResult EXCEPT ![r] =
                                 [NoResult EXCEPT !.kind = "None"]]
            /\ UNCHANGED <<memQueue, delivered, dropped>>
       ELSE LET messages == PoppedBack(memQueue)
                merged == ConcatBatches(messages[1].schema, messages)
                ids == [i \in 1..Len(messages) |-> messages[i].id]
            IN  /\ memQueue' = <<>>
                /\ IF merged.ok
                   THEN /\ readResult' = [readResult EXCEPT ![r] =
                               [kind |-> "Some", ids |-> ids,
                                rows |-> merged.rows]]
                        /\ delivered' = [b \in Written |->
                               delivered[b] +
                               (IF \E i \in 1..Len(ids) : ids[i] = b
                                THEN 1 ELSE 0)]
                        /\ UNCHANGED dropped
                   ELSE /\ readResult' = [readResult EXCEPT ![r] =
                               [NoResult EXCEPT !.kind = "Process"]]
                        /\ dropped' = dropped \cup
                               {ids[i] : i \in 1..Len(ids)}
                        /\ UNCHANGED delivered
    /\ UNCHANGED <<capacity, notifyWaiters, notifyPermit, closeToken, timerPc,
                   pushing, written, srcAcks, streamVars, pluginVars, registryVars, adapterVars>>

\* The caller of read calls ack() on the ArrayAck it was given, and is done
\* with the merged batch.
ArrayAckAck(r) ==
    /\ readResult[r].kind = "Some"
    /\ readResult' = [readResult EXCEPT ![r] = NoResult]
    /\ srcAcks' = [b \in Written |->
                      srcAcks[b] +
                      (IF b \in AckTargets(readResult[r].ids) THEN 1 ELSE 0)]
    /\ UNCHANGED <<capacity, memQueue, notifyWaiters, notifyPermit,
                   closeToken, timerPc, readPc, wokenBy, pushing, written,
                   delivered, dropped, waitingAtClose, streamVars, pluginVars,
                   registryVars, adapterVars>>

\* write, first block: under the read lock, notify_waiters when the queue
\* is long enough. One task writes: a write starts when the one before it
\* has returned.
BufferWriteCheck(s) ==
    /\ written < MaxWrites
    /\ pushing = {}
    /\ written' = written + 1
    /\ pushing' = pushing \cup {[id |-> written + 1, schema |-> s]}
    /\ IF NotifiesAt(Len(memQueue), capacity)
       THEN /\ readPc' = NotifyWaiters(readPc)
            /\ wokenBy' = WokenFor(readPc, readPc', "write")
            /\ notifyWaiters' = StillWaiting(notifyWaiters, readPc')
            /\ timerPc' = IF timerPc = "select" THEN "wokenAll" ELSE timerPc
       ELSE UNCHANGED <<readPc, wokenBy, notifyWaiters, timerPc>>
    /\ UNCHANGED <<capacity, memQueue, notifyPermit, closeToken, readResult,
                   delivered, dropped, srcAcks, waitingAtClose, streamVars, pluginVars,
                   registryVars, adapterVars>>

\* write, second block: push_front under the write lock.
BufferWritePush(item) ==
    /\ item \in pushing
    /\ pushing' = pushing \ {item}
    /\ memQueue' = <<item>> \o memQueue
    /\ UNCHANGED <<capacity, notifyWaiters, notifyPermit, closeToken, timerPc,
                   readPc, readResult, wokenBy, written, delivered, dropped,
                   srcAcks, waitingAtClose, streamVars, pluginVars, registryVars, adapterVars>>

\* flush: notify_one wakes the task that has waited longest, or stores a
\* permit when no task waits.
BufferFlush ==
    /\ IF notifyWaiters = <<>>
       THEN /\ notifyPermit' = TRUE
            /\ UNCHANGED <<notifyWaiters, readPc, wokenBy, timerPc>>
       ELSE /\ notifyWaiters' = Tail(notifyWaiters)
            /\ UNCHANGED notifyPermit
            /\ IF Head(notifyWaiters) = TimerTask
               THEN /\ timerPc' = "wokenOne"
                    /\ UNCHANGED <<readPc, wokenBy>>
               ELSE /\ readPc' = [readPc EXCEPT
                                     ![Head(notifyWaiters)] = "notified"]
                    /\ wokenBy' = WokenFor(readPc, readPc', "flush")
                    /\ UNCHANGED timerPc
    /\ UNCHANGED <<capacity, memQueue, closeToken, readResult, pushing,
                   written, delivered, dropped, srcAcks, waitingAtClose,
                   streamVars, pluginVars, registryVars, adapterVars>>

\* close: the token is cancelled.
BufferClose ==
    /\ ~closeToken
    /\ closeToken' = TRUE
    /\ waitingAtClose' = {r \in Readers : readPc[r] = "waiting"}
    /\ UNCHANGED <<capacity, memQueue, notifyWaiters, notifyPermit, timerPc,
                   readPc, readResult, wokenBy, pushing, written, delivered,
                   dropped, srcAcks, streamVars, pluginVars, registryVars, adapterVars>>

MemoryBufferNext ==
    \/ Timer
    \/ \E r \in Readers : BufferRead(r)
    \/ \E r \in Readers : ProcessMessages(r)
    \/ \E r \in Readers : ArrayAckAck(r)
    \/ \E s \in Schemas : BufferWriteCheck(s)
    \/ \E item \in pushing : BufferWritePush(item)
    \/ BufferFlush
    \/ BufferClose

\* A memory buffer of any of the capacities, and a stream nothing runs.
MemoryBufferInit ==
    /\ thread_num = 1
    /\ supply = MaxBatches
    /\ buffer_type = "none"
    /\ Constructed
    /\ RegistriesEmpty
    /\ \E c \in Capacities : MemoryBufferNew(c)
    /\ AdapterUnused
    /\ PluginsUnused

MemoryBufferSpec == MemoryBufferInit /\ [][MemoryBufferNext]_vars

\* The steps that notify and wake. What a caller does with a merged batch
\* and which schema a written batch has change no guard and no effect on
\* the Notify, the token, the timer task or a reader's position: they are
\* left to MemoryBufferNext.
WakeNext ==
    \/ Timer
    \/ \E r \in Readers : BufferRead(r)
    \/ \E r \in Readers : ProcessMessages(r)
    \/ \E s \in {CHOOSE s \in Schemas : TRUE} : BufferWriteCheck(s)
    \/ \E item \in pushing : BufferWritePush(item)
    \/ BufferFlush
    \/ BufferClose

\* The capacity under which a write can leave a pair in the queue without
\* notifying: the first write of a buffer of capacity 3.
WakeCapacities == {c \in Capacities : c - 1 > 1}

WakeInit ==
    /\ thread_num = 1
    /\ supply = MaxBatches
    /\ buffer_type = "none"
    /\ Constructed
    /\ RegistriesEmpty
    /\ \E c \in WakeCapacities : MemoryBufferNew(c)
    /\ AdapterUnused
    /\ PluginsUnused

WakeSpec == WakeInit /\ [][WakeNext]_vars

\* The tokio runtime runs the timer task and every task that was woken; a
\* sleep that is polled elapses. Nothing makes the callers of the buffer
\* call read, write, flush or close.
FairWakeSpec ==
    /\ WakeSpec
    /\ WF_vars(TimerSelect)
    /\ WF_vars(TimerElapsed)
    /\ WF_vars(TimerCancelled)
    /\ \A r \in Readers : WF_vars(ProcessMessages(r))

\* ------------------------------------------------------------ input adapters

\* A background task of the adapter runs.
inServing == inTasks > 0

\* The tasks that run when a successful connect returns: HttpInput tests
\* `connected` before it spawns its server; MqttInput and RedisInput spawn
\* a task on every call; ModbusInput spawns none.
Spawned(kind, connected, tasks) ==
    IF kind = "http" THEN (IF connected THEN tasks ELSE 1)
    ELSE IF kind = "modbus" THEN 0
    ELSE tasks + 1

\* connect: HttpInput spawns its server unless connected; ModbusInput
\* replaces its client when tcp::connect succeeds; MqttInput and RedisInput
\* store a client and spawn the task that fills the queue.
AdapterConnect(ok) ==
    /\ ~inClosed
    /\ inReadPc = "idle"
    /\ IF inKind = "http" \/ ok
       THEN /\ Spawned(inKind, inClient, inTasks) <= MaxTasks
            /\ inClient' = TRUE
            /\ inTasks' = Spawned(inKind, inClient, inTasks)
       ELSE UNCHANGED <<inClient, inTasks>>
    /\ UNCHANGED <<inKind, inQueue, inClosed, inReadPc, inSignalled, inResult,
                   inAfterClose, streamVars, pluginVars, registryVars, memVars>>

\* The tasks left when one of them has queued item: the Redis list puller
\* breaks after it queued Err(Disconnection); the MQTT task sleeps a second
\* and polls again.
TasksAfter(kind, item, tasks) ==
    IF kind = "redis" /\ item = "err" THEN tasks - 1 ELSE tasks

\* handle_request, or the MQTT / Redis task: a message is queued; the two
\* pollers also queue Err(Disconnection).
AdapterDeliver(item) ==
    /\ inServing
    /\ Len(inQueue) < MaxQueued
    /\ item = "err" => inKind \in {"mqtt", "redis"}
    /\ inQueue' = Append(inQueue, item)
    /\ inTasks' = TasksAfter(inKind, item, inTasks)
    /\ UNCHANGED <<inKind, inClient, inClosed, inReadPc,
                   inSignalled, inResult, inAfterClose, streamVars, pluginVars,
                   registryVars, memVars>>

\* What a read returns at once, "none" when it goes on to wait on the
\* queue: the connected / client test, then HttpInput's pop_front and
\* ModbusInput's reads of the points (ok: the device answered).
ReadAtOnce(kind, client, q, ok) ==
    IF ~client
    THEN (IF kind = "http" THEN "Connection" ELSE "Disconnection")
    ELSE IF kind = "http"
    THEN (IF q # <<>> THEN "batch" ELSE "Process")
    ELSE IF kind = "modbus"
    THEN (IF ok THEN "batch" ELSE "Process")
    ELSE "none"

\* read is called.
AdapterRead(ok) ==
    /\ inReadPc = "idle"
    /\ inAfterClose' = inClosed
    /\ inResult' = ReadAtOnce(inKind, inClient, inQueue, ok)
    /\ inReadPc' = IF inResult' = "none" THEN "reading" ELSE "idle"
    /\ inQueue' = IF inKind = "http" /\ inResult' = "batch"
                  THEN Tail(inQueue) ELSE inQueue
    /\ inSignalled' = FALSE
    /\ UNCHANGED <<inKind, inClient, inTasks, inClosed, streamVars, pluginVars,
                   registryVars, memVars>>

\* A waiting read of MqttInput or RedisInput receives from the queue.
AdapterReadRecv ==
    /\ inReadPc = "reading"
    /\ inQueue # <<>>
    /\ inResult' = IF Head(inQueue) = "msg" THEN "batch" ELSE "Disconnection"
    /\ inQueue' = Tail(inQueue)
    /\ inReadPc' = "idle"
    /\ inSignalled' = FALSE
    /\ UNCHANGED <<inKind, inClient, inTasks, inClosed, inAfterClose,
                   streamVars, pluginVars, registryVars, memVars>>

\* A waiting read of MqttInput receives the close message on the close_rx
\* it subscribed when it was called.
AdapterReadClosed ==
    /\ inReadPc = "reading"
    /\ inSignalled
    /\ inResult' = "EOF"
    /\ inReadPc' = "idle"
    /\ inSignalled' = FALSE
    /\ UNCHANGED <<inKind, inClient, inTasks, inQueue, inClosed,
                   inAfterClose, streamVars, pluginVars, registryVars, memVars>>

\* close: HttpInput aborts the server and clears connected; ModbusInput and
\* RedisInput take the client; MqttInput sends on close_tx, which the
\* receivers subscribed by then hold, and keeps its client.
AdapterClose ==
    /\ ~inClosed
    /\ inClosed' = TRUE
    /\ inTasks' = 0
    /\ inClient' = (inKind = "mqtt" /\ inClient)
    /\ inSignalled' = (inKind = "mqtt" /\ inReadPc = "reading")
    /\ UNCHANGED <<inKind, inQueue, inReadPc, inResult, inAfterClose,
                   streamVars, pluginVars, registryVars, memVars>>

AdapterNext ==
    \/ \E ok \in BOOLEAN : AdapterConnect(ok)
    \/ \E item \in {"msg", "err"} : AdapterDeliver(item)
    \/ \E ok \in BOOLEAN : AdapterRead(ok)
    \/ AdapterReadRecv
    \/ AdapterReadClosed
    \/ AdapterClose

\* An input adapter of any of the kinds; a stream and a buffer nothing
\* runs.
AdapterInit ==
    /\ thread_num = 1
    /\ supply = MaxBatches
    /\ buffer_type = "none"
    /\ Constructed
    /\ RegistriesEmpty
    /\ MemoryBufferUnused
    /\ \E a \in Adapters : AdapterNew(a)
    /\ PluginsUnused

AdapterSpec == AdapterInit /\ [][AdapterNext]_vars

\* ------------------------------------------------------------------ outputs
\* HttpOutput, KafkaOutput and SqlOutput behind the Output trait, called by
\* one task: connect, write and close follow one another.

coreVars == <<streamVars, registryVars, memVars, adapterVars>>

\* The payloads of a written batch (msg.to_binary, msg.as_string).
Payloads == {0, 1, 2}

\* What a request of send can come to: a success status, another status,
\* or an error of reqwest.
RequestOutcomes == {"ok", "status", "error"}

\* The Error kind last_error takes after a failed request.
ErrorOf(o) == IF o = "status" THEN "Process" ELSE "Connection"

\* A loop that allows one attempt more.
RetriesOneMore(count, cfg) == count <= cfg + 1

\* while retry_count <= self.config.retry_count
Retries(count, cfg) == count <= cfg

\* Duration::from_millis(100 * 2u64.pow(retry_count - 1))
Backoff(count) == 100 * 2^(count - 1)

\* close drops what the output holds: HttpOutput sets its client to None,
\* KafkaOutput takes its producer; SqlOutput only cancels its token.
Released(kind) == kind \in {"http", "kafka"}

\* connect: HttpOutput builds a client and sets connected; KafkaOutput
\* stores the producer T::create returned; SqlOutput returns at once when
\* connected and else stores the connection.
OutConnect(ok) ==
    /\ outPc = "idle"
    /\ outCloses = <<>>
    /\ IF ok /\ ~(outKind = "sql" /\ outConnected)
       THEN /\ outClient' = TRUE
            /\ outConnected' = (outKind # "kafka")
       ELSE UNCHANGED <<outClient, outConnected>>
    /\ UNCHANGED <<outKind, outLen, outCancelled, outCloses, retryCfg, methodOk, outPc,
                   outLeft, retry_count, last_error, attempts, waits,
                   sendResult, outResult, outSent, outAfterClose, coreVars,
                   sqlInputVars, sqlProcVars>>

\* What KafkaOutput::write and SqlOutput::write return; fail is the
\* position of the payload whose send failed (SqlOutput: the insert), 0
\* when none does.
WriteAtOnce(kind, client, n, fail) ==
    IF ~client
    THEN (IF kind = "kafka" THEN "Connection" ELSE "Process")
    ELSE IF kind = "kafka" /\ n = 0 THEN "Ok"
    ELSE IF fail = 0 THEN "Ok" ELSE "Process"

\* The payloads KafkaOutput::write sent to the producer, the rows
\* SqlOutput::write inserted.
SentAtOnce(kind, client, n, fail) ==
    IF ~client THEN 0
    ELSE IF fail = 0 THEN n
    ELSE IF kind = "kafka" THEN fail - 1 ELSE 0

\* write is called with a batch of n payloads. HttpOutput returns Ok for an
\* empty batch and else goes on to send the first payload.
OutWrite(n, fail) ==
    /\ outPc = "idle"
    /\ outAfterClose' = (outCloses # <<>>)
    /\ outLen' = n
    /\ IF outKind = "http"
       THEN /\ fail = 0
            /\ outPc' = IF n = 0 THEN "idle" ELSE "send"
            /\ outResult' = IF n = 0 THEN "Ok" ELSE "none"
            /\ outLeft' = n
            /\ outSent' = 0
       ELSE /\ outResult' = WriteAtOnce(outKind, outClient, n, fail)
            /\ outSent' = SentAtOnce(outKind, outClient, n, fail)
            /\ UNCHANGED <<outPc, outLeft>>
    /\ UNCHANGED <<outKind, outClient, outConnected, outCancelled, outCloses,
                   retryCfg, methodOk, retry_count, last_error, attempts,
                   waits, sendResult, coreVars,
                   sqlInputVars, sqlProcVars>>

\* send is called: the connected test, the method, then the retry loop
\* with retry_count = 0 and last_error = None.
HttpSendBegin ==
    /\ outPc = "send"
    /\ retry_count' = 0
    /\ last_error' = "None"
    /\ attempts' = <<>>
    /\ waits' = <<>>
    /\ sendResult' = IF ~outConnected \/ ~outClient THEN "Connection"
                     ELSE IF ~methodOk THEN "Config"
                     ELSE "none"
    /\ IF sendResult' = "none"
       THEN /\ outPc' = "request"
            /\ UNCHANGED <<outResult, outLeft>>
       ELSE /\ outPc' = "idle"
            /\ outResult' = sendResult'
            /\ outLeft' = 0
    /\ UNCHANGED <<outKind, outLen, outClient, outConnected, outCancelled, outCloses,
                   retryCfg, methodOk, outSent, outAfterClose, coreVars,
                   sqlInputVars, sqlProcVars>>

\* One turn of the retry loop: the request returns; on success send
\* returns Ok and write goes to its next payload; else last_error is set,
\* retry_count grows and send sleeps, or leaves the loop with last_error.
HttpRequest(o) ==
    /\ outPc = "request"
    /\ attempts' = Append(attempts, o)
    /\ outSent' = outSent + 1
    /\ IF o = "ok"
       THEN /\ sendResult' = "Ok"
            /\ outLeft' = outLeft - 1
            /\ outPc' = IF outLeft' = 0 THEN "idle" ELSE "send"
            /\ outResult' = IF outLeft' = 0 THEN "Ok" ELSE outResult
            /\ UNCHANGED <<retry_count, last_error, waits>>
       ELSE /\ last_error' = ErrorOf(o)
            /\ retry_count' = retry_count + 1
            /\ IF Retries(retry_count', retryCfg)
               THEN /\ waits' = Append(waits, Backoff(retry_count'))
                    /\ outPc' = "sleep"
                    /\ UNCHANGED <<sendResult, outResult, outLeft>>
               ELSE /\ sendResult' = last_error'
                    /\ outResult' = last_error'
                    /\ outPc' = "idle"
                    /\ outLeft' = 0
                    /\ UNCHANGED waits
    /\ UNCHANGED <<outKind, outLen, outClient, outConnected, outCancelled, outCloses,
                   retryCfg, methodOk, outAfterClose, coreVars,
                   sqlInputVars, sqlProcVars>>

\* The sleep before a retry has elapsed.
HttpSleepDone ==
    /\ outPc = "sleep"
    /\ outPc' = "request"
    /\ UNCHANGED <<outKind, outLen, outClient, outConnected, outCancelled, outCloses,
                   retryCfg, methodOk, outLeft, retry_count, last_error,
                   attempts, waits, sendResult, outResult, outSent,
                   outAfterClose, coreVars,
                   sqlInputVars, sqlProcVars>>

\* close: HttpOutput clears connected and its client; KafkaOutput takes the
\* producer and flushes it (ok: the flush succeeded); SqlOutput cancels its
\* token.
OutClose(ok) ==
    /\ outPc = "idle"
    /\ Len(outCloses) < MaxCloses
    /\ outClient' = (outClient /\ ~Released(outKind))
    /\ outConnected' = (outConnected /\ outKind # "http")
    /\ outCancelled' = (outCancelled \/ outKind = "sql")
    /\ outCloses' = Append(outCloses,
                           IF outKind = "kafka" /\ outClient /\ ~ok
                           THEN "Connection" ELSE "Ok")
    /\ UNCHANGED <<outKind, outLen, retryCfg, methodOk, outPc, outLeft, retry_count,
                   last_error, attempts, waits, sendResult, outResult, outSent,
                   outAfterClose, coreVars,
                   sqlInputVars, sqlProcVars>>

OutputNext ==
    \/ \E ok \in BOOLEAN : OutConnect(ok)
    \/ \E n \in Payloads : \E fail \in 0..n : OutWrite(n, fail)
    \/ HttpSendBegin
    \/ \E o \in RequestOutcomes : HttpRequest(o)
    \/ HttpSleepDone
    \/ \E ok \in BOOLEAN : OutClose(ok)

\* An output of any of the three kinds; a stream, a buffer and an input
\* nothing runs.
OutputInit ==
    /\ thread_num = 1
    /\ supply = MaxBatches
    /\ buffer_type = "none"
    /\ Constructed
    /\ RegistriesEmpty
    /\ MemoryBufferUnused
    /\ AdapterUnused
    /\ \E k \in {"http", "kafka", "sql"} :
       \E retries \in 0..MaxRetries :
       \E method \in BOOLEAN :
          /\ k # "http" => (retries = 0 /\ method)
          /\ OutputNew(k, retries, method)
    /\ SqlInputUnused
    /\ SqlProcessorUnused

OutputSpec == OutputInit /\ [][OutputNext]_vars

\* The tokio runtime runs the task that is in write: a request returns (the
\* client has a timeout) and a sleep elapses. Nothing makes the caller call
\* connect, write or close.
FairOutputSpec ==
    /\ OutputSpec
    /\ WF_vars(HttpSendBegin)
    /\ WF_vars(\E o \in RequestOutcomes : HttpRequest(o))
    /\ WF_vars(HttpSleepDone)

\* ---------------------------------------------------------------- SqlInput
\* One SqlInput whose read is called by several tasks.

\* What the statements of a read come to: create_table_sql fails (Config),
\* select_sql or collect fails (Reading), the merge fails (Processing), or
\* the result is returned.
SqlOutcomes(cfg) ==
    IF cfg = "bad_create" THEN {"Config"}
    ELSE IF cfg = "bad_select" THEN {"Reading"}
    ELSE {"ok", "Reading", "Processing"}

\* A read that sets the flag however it ends.
MarksConsumedAlways(o) == TRUE

\* self.read.store(true, Ordering::Release): reached when no `?` returned.
MarksConsumed(o) == o = "ok"

\* read is called: self.read.load(Ordering::Acquire), Err(Error::Done) when
\* set; else the read goes on to its statements.
SqlRead(t) ==
    /\ sqlPc[t] = "idle"
    /\ sqlCalls < MaxReads
    /\ sqlCalls' = sqlCalls + 1
    /\ IF read
       THEN /\ sqlResult' = [sqlResult EXCEPT ![t] = "Done"]
            /\ UNCHANGED sqlPc
       ELSE /\ sqlResult' = [sqlResult EXCEPT ![t] = "none"]
            /\ sqlPc' = [sqlPc EXCEPT ![t] = "query"]
    /\ UNCHANGED <<sqlConfig, read, queries, returned, coreVars, outputVars,
                   sqlProcVars>>

\* The statements of a read have run: an error returns through `?`, else
\* the flag is stored and the batch returned.
SqlReadReturn(t, o) ==
    /\ sqlPc[t] = "query"
    /\ queries' = queries + 1
    /\ read' = (read \/ MarksConsumed(o))
    /\ returned' = IF o = "ok" THEN returned + 1 ELSE returned
    /\ sqlResult' = [sqlResult EXCEPT ![t] = IF o = "ok" THEN "batch" ELSE o]
    /\ sqlPc' = [sqlPc EXCEPT ![t] = "idle"]
    /\ UNCHANGED <<sqlConfig, sqlCalls, coreVars, outputVars,
                   sqlProcVars>>

SqlInputNext ==
    \/ \E t \in SqlCallers : SqlRead(t)
    \/ \E t \in SqlCallers : \E o \in SqlOutcomes(sqlConfig) : SqlReadReturn(t, o)

\* A SqlInput of any configuration; a stream, a buffer, an input adapter
\* and an output nothing runs.
SqlInputInit ==
    /\ thread_num = 1
    /\ supply = MaxBatches
    /\ buffer_type = "none"
    /\ Constructed
    /\ RegistriesEmpty
    /\ MemoryBufferUnused
    /\ AdapterUnused
    /\ OutputUnused
    /\ \E cfg \in {"valid", "bad_create", "bad_select"} : SqlInputNew(cfg)
    /\ SqlProcessorUnused

SqlInputSpec == SqlInputInit /\ [][SqlInputNext]_vars

\* ------------------------------------------------------------ SqlProcessor
\* One SqlProcessor in windowed mode whose process is called by the worker
\* tasks. The batch of a call is what parse_input made of the message.

\* WindowConfig.size_ms and slide_ms of the model, in milliseconds.
Sizes == {1, 2, 3}

\* WindowConfig.watermark_delay_ms of the model.
Delays == {0, 1, 3}

\* WindowConfig.timeout_ms of the model.
Timeouts == {NoMs, 1}

\* The timestamps extract_timestamp parses (i64).
Timestamps == {-1, 0, 1, 2, 5}

\* i64 `/`: the quotient truncated towards zero.
TruncDiv(a, b) == IF a >= 0 THEN a \div b ELSE -((-a) \div b)

\* A watermark that has to pass the end of the window.
ReachedStrictly(a, b) == a > b

\* timestamp + watermark_delay_ms >= window_end
Reached(a, b) == a >= b

\* timeout_ms.unwrap_or(30000), slide_ms.unwrap_or(size_ms)
UnwrapOr(ms, default) == IF ms = NoMs THEN default ELSE ms

\* should_trigger of apply_window.
ShouldTrigger(type, ts, last) ==
    IF type = "tumbling"
    THEN Reached(ts + watermark_delay_ms,
                 (TruncDiv(ts, size_ms) + 1) * size_ms)
    ELSE IF type = "sliding"
    THEN Reached(ts + watermark_delay_ms,
                 (TruncDiv(ts, UnwrapOr(slide_ms, size_ms)) + 1)
                     * UnwrapOr(slide_ms, size_ms))
    ELSE last > 0 /\ ts - last > UnwrapOr(timeout_ms, 30000)

\* combine_batches returns Ok: every batch has the schema of the first.
Combinable(data) == \A i \in 1..Len(data) : data[i].schema = data[1].schema

DataIds(data) == [i \in 1..Len(data) |-> data[i].id]

\* process is called and reaches state.lock().await.
SqlProcess(t, ts, timed, sch) ==
    /\ procPc[t] = "idle"
    /\ processed < MaxProcessed
    /\ processed' = processed + 1
    /\ procArg' = [procArg EXCEPT ![t] = [id |-> processed', ts |-> ts,
                                          timed |-> timed, schema |-> sch]]
    /\ procResult' = [procResult EXCEPT ![t] = NoProcResult]
    /\ procPc' = [procPc EXCEPT ![t] = "wait"]
    /\ UNCHANGED <<window_type, size_ms, slide_ms, timeout_ms,
                   watermark_delay_ms, window_data, last_timestamp, stateLock,
                   coreVars, outputVars, sqlInputVars>>

\* apply_window with the lock: extract_timestamp (Err: nothing is pushed),
\* the push, should_trigger, last_timestamp; without a trigger Ok(None);
\* with one process_window_data combines the batches (Err: `?` returns
\* before the clear), clears window_data and starts the query.
ApplyWindow(t) ==
    /\ procPc[t] = "wait"
    /\ stateLock = 0
    /\ LET b == procArg[t]
           pushed == Append(window_data, [id |-> b.id, schema |-> b.schema])
           trig == ShouldTrigger(window_type, b.ts, last_timestamp)
       IN IF ~b.timed
          THEN /\ procResult' = [procResult EXCEPT ![t] =
                      [NoProcResult EXCEPT !.kind = "Err"]]
               /\ procPc' = [procPc EXCEPT ![t] = "idle"]
               /\ UNCHANGED <<window_data, last_timestamp, stateLock>>
          ELSE /\ last_timestamp' = IF b.ts > last_timestamp
                                    THEN b.ts ELSE last_timestamp
               /\ IF ~trig
                  THEN /\ window_data' = pushed
                       /\ procResult' = [procResult EXCEPT ![t] =
                              [kind |-> "Empty", timed |-> TRUE,
                               trig |-> FALSE, ts |-> b.ts, over |-> <<>>]]
                       /\ procPc' = [procPc EXCEPT ![t] = "idle"]
                       /\ UNCHANGED stateLock
                  ELSE IF ~Combinable(pushed)
                  THEN /\ window_data' = pushed
                       /\ procResult' = [procResult EXCEPT ![t] =
                              [kind |-> "Err", timed |-> TRUE,
                               trig |-> TRUE, ts |-> b.ts, over |-> <<>>]]
                       /\ procPc' = [procPc EXCEPT ![t] = "idle"]
                       /\ UNCHANGED stateLock
                  ELSE /\ window_data' = <<>>
                       /\ procResult' = [procResult EXCEPT ![t] =
                              [kind |-> "none", timed |-> TRUE,
                               trig |-> TRUE, ts |-> b.ts,
                               over |-> DataIds(pushed)]]
                       /\ procPc' = [procPc EXCEPT ![t] = "query"]
                       /\ stateLock' = t
    /\ procArg' = [procArg EXCEPT ![t] = NoArg]
    /\ UNCHANGED <<window_type, size_ms, slide_ms, timeout_ms,
                   watermark_delay_ms, processed, coreVars, outputVars,
                   sqlInputVars>>

\* What execute_query and update_state_data come to: a result, the empty
\* result (Ok(None)), or an error.
QueryOutcomes == {"Some", "Empty", "Err"}

\* process_window_data returns, apply_window drops the lock, process
\* returns vec![msg], vec![] or the error.
QueryDone(t, o) ==
    /\ procPc[t] = "query"
    /\ procResult' = [procResult EXCEPT ![t].kind = o]
    /\ procPc' = [procPc EXCEPT ![t] = "idle"]
    /\ stateLock' = 0
    /\ UNCHANGED <<window_type, size_ms, slide_ms, timeout_ms,
                   watermark_delay_ms, window_data, last_timestamp, procArg,
                   processed, coreVars, outputVars, sqlInputVars>>

SqlProcessorNext ==
    \/ \E t \in SqlWorkers : \E ts \in Timestamps : \E sch \in Schemas :
          SqlProcess(t, ts, TRUE, sch)
    \/ \E t \in SqlWorkers : SqlProcess(t, 0, FALSE, "s1")
    \/ \E t \in SqlWorkers : ApplyWindow(t)
    \/ \E t \in SqlWorkers : \E o \in QueryOutcomes : QueryDone(t, o)

\* A windowed SqlProcessor of any of the three window types; a stream, a
\* buffer, an input adapter, an output and a SqlInput nothing runs.
SqlProcessorInit ==
    /\ thread_num = 1
    /\ supply = MaxBatches
    /\ buffer_type = "none"
    /\ Constructed
    /\ RegistriesEmpty
    /\ MemoryBufferUnused
    /\ AdapterUnused
    /\ OutputUnused
    /\ SqlInputUnused
    /\ \/ \E size \in Sizes : \E delay \in Delays :
             SqlProcessorNew("tumbling", size, NoMs, NoMs, delay)
       \/ \E slide \in {NoMs, 1} : \E delay \in Delays :
             SqlProcessorNew("sliding", 2, slide, NoMs, delay)
       \/ \E timeout \in Timeouts :
             SqlProcessorNew("session", 2, NoMs, timeout, 0)

SqlProcessorSpec == SqlProcessorInit /\ [][SqlProcessorNext]_vars

\* The calls on a tumbling window whose batches have one schema: the
\* schema of a batch changes nothing in should_trigger.
TumblingNext ==
    \/ \E t \in SqlWorkers : \E ts \in Timestamps :
          SqlProcess(t, ts, TRUE, CHOOSE sch \in Schemas : TRUE)
    \/ \E t \in SqlWorkers : SqlProcess(t, 0, FALSE, "s1")
    \/ \E t \in SqlWorkers : ApplyWindow(t)
    \/ \E t \in SqlWorkers : \E o \in QueryOutcomes : QueryDone(t, o)

TumblingInit ==
    /\ thread_num = 1
    /\ supply = MaxBatches
    /\ buffer_type = "none"
    /\ Constructed
    /\ RegistriesEmpty
    /\ MemoryBufferUnused
    /\ AdapterUnused
    /\ OutputUnused
    /\ SqlInputUnused
    /\ \E size \in Sizes : \E delay \in Delays :
          SqlProcessorNew("tumbling", size, NoMs, NoMs, delay)

TumblingSpec == TumblingInit /\ [][TumblingNext]_vars


\* ------------------------------------------------------------ where a batch is

SeqIds(q) == {q[i] : i \in 1..Len(q)}
ItemIds(items) == {it.id : it \in items}
OutIds == {outputQ[i].id : i \in 1..Len(outputQ)}

\* The batches the ingest task has forwarded to IN.
Forwarded == {b \in 1..produced : b # held}

\* The number of places of the stream that hold batch b.
Places(b) ==
    (IF b = held THEN 1 ELSE 0)
    + Cardinality({i \in 1..Len(inputQ) : inputQ[i] = b})
    + (IF b \in processing THEN 1 ELSE 0)
    + Cardinality({it \in sending : it.id = b})
    + Cardinality({i \in 1..Len(outputQ) : outputQ[i].id = b})
    + (IF sinkItem.id = b THEN 1 ELSE 0)

\* The batches input.read has returned whose handling is not over.
InFlight ==
    (IF held # NoBatch THEN 1 ELSE 0)
    + Len(inputQ) + Cardinality(processing) + Cardinality(sending)
    + Len(outputQ)
    + (IF sinkItem # NoItem THEN 1 ELSE 0)

\* The handling of batch b is over: a worker dropped it, or the sink loop
\* finished its item.
Handled(b) == outcome[b] # "none" /\ Places(b) = 0

\* ------------------------------------------------------------------ claims

\* C1: for every pair forwarded to IN, ack() is invoked exactly once when
\* pipeline.process succeeded and every output batch was written, and never
\* in any other case; when run() has returned every forwarded pair is in
\* one of the two cases.
C1_AckExactlyOnceIffDelivered ==
    /\ \A b \in Batches :
          /\ outcome[b] = "delivered" => acks[b] = 1
          /\ outcome[b] # "delivered" => acks[b] = 0
    /\ runPc = "done" => \A b \in Forwarded : Handled(b)

\* C1 witness: run() has returned, one pair was acked and another was not.
C1_Witness ==
    /\ runPc = "done"
    /\ \E b, c \in Forwarded :
          /\ outcome[b] = "delivered" /\ acks[b] = 1
          /\ outcome[c] = "failed" /\ acks[c] = 0

\* C4: after the ingest task has stopped (signal, EOF or Config) every batch
\* that entered IN is in exactly one place or has been handled, and when
\* close() is called IN and OUT are empty, no worker and not the sink hold
\* a batch, and every batch that entered IN has been handled.
C4_NoLossOnShutdown ==
    /\ ingestPc = "stopped" =>
          \A b \in Forwarded : Places(b) = 1 \/ Handled(b)
    /\ (Started /\ runPc \in {"close", "done"}) =>
          /\ ingestPc = "stopped"
          /\ exited = thread_num
          /\ inputQ = <<>> /\ outputQ = <<>>
          /\ processing = {} /\ sending = {}
          /\ sinkItem = NoItem
          /\ \A b \in Forwarded : Handled(b)

\* C4 witness: a signal has stopped the ingest task while IN and OUT hold
\* items and a worker holds a batch.
C4_Witness ==
    /\ stopReason \in Signals
    /\ inputQ # <<>> /\ outputQ # <<>> /\ processing # {}

\* C10: a failed input.connect or output.connect makes run() return that
\* error with no task started and no read, process or write made; after a
\* failed input.connect, output.connect is not called.
C10_ConnectFailureAbortsStartup ==
    /\ runErr \in {"input.connect", "output.connect"} =>
          /\ runPc = "done" /\ runResult = "Err"
          /\ ~Started /\ exited = 0
          /\ produced = 0 /\ held = NoBatch
          /\ inputQ = <<>> /\ outputQ = <<>>
          /\ processing = {} /\ sending = {} /\ sinkItem = NoItem
          /\ \A b \in Batches : outcome[b] = "none" /\ acks[b] = 0
    /\ runErr = "input.connect" => (inConnects = 1 /\ outConnects = 0)
    /\ runErr = "output.connect" => (inConnects = 1 /\ outConnects = 1)

\* C10 witness: run() has returned the error of input.connect.
C10_Witness == runPc = "done" /\ runErr = "input.connect"

\* The places of do_input inside the Error::Disconnection arm.
Reconnecting == {"reconnect", "sleep", "reconnected"}

\* C2: once a signal has been delivered, run() eventually returns, whatever
\* the ingest task was doing.
C2_SignalLeadsToReturn == (pendingSig # "none") ~> (runPc = "done")

\* C3: after EOF the ingest task has stopped and IN is closed, every batch
\* forwarded before is handled, and run() returns Ok.
C3_EofDrainsAndReturnsOk ==
    stopReason = "EOF" =>
        /\ ingestPc = "stopped" /\ InputSenders = 0
        /\ runPc = "done" =>
              /\ \A b \in Forwarded : Handled(b)
              /\ exited = thread_num
              /\ runResult = "Ok"

\* C5: a batch whose pipeline.process failed is never sent to OUT, never
\* written and never acked, and the worker that held it is back in its
\* recv_async.
C5_FailedBatchNotForwarded ==
    \A b \in Batches : outcome[b] = "failed" =>
        /\ acks[b] = 0
        /\ b \notin ItemIds(sending) /\ b \notin OutIds /\ sinkItem.id # b

C5_WorkerGoesOn ==
    \A b \in Batches :
        (b \in processing /\ outcome[b] = "none" /\ outcome'[b] = "failed") =>
            /\ Idle' = Idle + 1
            /\ exited' = exited
            /\ outputQ' = outputQ /\ sending' = sending
            /\ acks' = acks

C5_ProcessErrorDropsBatch ==
    []C5_FailedBatchNotForwarded /\ [][C5_WorkerGoesOn]_vars

\* C5 witness: with one worker, batch 2 has failed while the sink is still
\* writing batch 1 (so batch 2 failed in pipeline.process) and the worker
\* has gone on to batch 3.
C5_Witness ==
    /\ thread_num = 1
    /\ sinkItem.id = 1
    /\ outcome[2] = "failed"
    /\ processing = {3}

\* C6: the sink writes every batch of an item once, in list order, whatever
\* the earlier writes returned; when it leaves the item every batch has been
\* written once, and after a failed write the ack is not invoked.
C6_WritesInOrder ==
    runPc = "sink_write" =>
        /\ sinkIdx \in 1..(sinkItem.n + 1)
        /\ sinkLog = [i \in 1..(sinkIdx - 1) |-> i]

C6_LeavesItem ==
    (runPc = "sink_write" /\ runPc' # "sink_write") =>
        /\ sinkLog = [i \in 1..sinkItem.n |-> i]
        /\ sinkFailed => acks' = acks
        /\ runPc' = "sink_recv"
        /\ outputQ' = outputQ

C6_EveryBatchWrittenOnce == []C6_WritesInOrder /\ [][C6_LeavesItem]_vars

\* C6 witness: both writes of a two-batch item were made, the second after
\* the first had failed.
C6_Witness ==
    /\ runPc = "sink_write"
    /\ sinkItem.n = 2
    /\ sinkLog = <<1, 2>>
    /\ success_cnt = 0

\* C7: in the Disconnection arm the ingest task only calls input.connect
\* and sleeps: it reads nothing and leaves IN and OUT alone; a failed
\* connect is followed by a sleep and another connect, a successful one
\* ends the loop and is the only successful one (calls = failures + 1), and
\* the task then is back in its select!.
C7_OneSuccessEndsLoop ==
    /\ ingestPc \in {"reconnect", "sleep"} => connOks = 0
    /\ ingestPc = "sleep" => connFails >= 1
    /\ ingestPc = "reconnected" => connOks = 1
    /\ ingestPc \in Reconnecting => (lastErr = "Disconnection" /\ held = NoBatch)

C7_ReconnectStep ==
    (ingestPc \in Reconnecting /\ ingestPc' # ingestPc) =>
        /\ ingestPc = "reconnect" => ingestPc' \in {"sleep", "reconnected"}
        /\ ingestPc = "sleep" => ingestPc' = "reconnect"
        /\ ingestPc = "reconnected" => ingestPc' = "select"
        /\ UNCHANGED <<produced, held, inputQ, outputQ>>

C7_ReconnectLoop == []C7_OneSuccessEndsLoop /\ [][C7_ReconnectStep]_vars

\* C7 witness: a connect has succeeded after a failed one, with a batch
\* waiting in IN.
C7_Witness ==
    /\ ingestPc = "reconnected"
    /\ connFails >= 1
    /\ inputQ # <<>>

\* The error kinds C8 names as logged.
LoggedKinds == {"Read", "Process", "Connection", "Io", "Serialization", "Unknown"}

\* C8: a Config error stops the ingest task for good and the stream closes
\* with everything forwarded handled; a Read, Process, Connection, Io,
\* Serialization or Unknown error never stops it and never makes it
\* reconnect: it is logged, IN stays as it is and the task is back in its
\* select!.
C8_Dispatch ==
    /\ lastErr # "Config"
    /\ stopReason \notin LoggedKinds
    /\ lastErr \in LoggedKinds => ingestPc = "logged"
    /\ stopReason = "Config" => ingestPc = "stopped"
    /\ (stopReason = "Config" /\ runPc = "done") =>
          /\ closeCalls # <<>>
          /\ \A b \in Forwarded : Handled(b)

C8_Step ==
    /\ ingestPc = "stopped" => UNCHANGED ingestVars
    /\ (ingestPc = "select" /\ ingestPc' = "logged") =>
          UNCHANGED <<inputQ, held, produced, connOks, connFails>>
    /\ (ingestPc = "logged" /\ ingestPc' # "logged") =>
          /\ ingestPc' = "select"
          /\ UNCHANGED <<inputQ, held, produced, connOks, connFails>>

C8_ConfigStopsOthersContinue == []C8_Dispatch /\ [][C8_Step]_vars

\* C8 witness: a Config error has stopped the ingest task and run() is
\* about to close a stream that handled a batch.
C8_Witness ==
    /\ stopReason = "Config"
    /\ runPc = "close"
    /\ produced >= 1

\* C9 as claimed: a Timeout from input.read puts the ingest task into the
\* reconnect loop.
C9_TimeoutReconnects == lastErr = "Timeout" => ingestPc \in Reconnecting

\* C9 as amended: a Timeout from input.read is logged like the other kinds:
\* no input.connect is called and the task is back in its select!.
C9_TimeoutLoggedState ==
    lastErr = "Timeout" =>
        (ingestPc = "logged" /\ connOks = 0 /\ connFails = 0)

C9_TimeoutLoggedStep ==
    (lastErr = "Timeout" /\ ingestPc' # ingestPc) =>
        /\ ingestPc' = "select"
        /\ UNCHANGED <<inputQ, held, produced, connOks, connFails>>

C9_TimeoutIsLogged == []C9_TimeoutLoggedState /\ [][C9_TimeoutLoggedStep]_vars

\* C9 witness: input.read has returned Timeout.
C9_Witness == lastErr = "Timeout" /\ ingestPc = "logged"

\* C11: when run() returns the error of output.connect, the input, which
\* did connect, has been closed.
C11_StartupFailureClosesConnected ==
    (runPc = "done" /\ runErr = "output.connect") =>
        \E i \in 1..Len(closeCalls) : closeCalls[i] = "input"

\* C12: in a run that started, once close() has been called it has been
\* called on input, pipeline and output, in that order and once each, and
\* by then the ingest task and every worker had stopped, the sink loop had
\* left and nothing was held anywhere.
C12_CloseOnceInOrderAfterTasks ==
    (Started /\ runPc = "done") =>
        /\ closeCalls = CloseOrder
        /\ ingestPc = "stopped" /\ exited = thread_num
        /\ held = NoBatch /\ processing = {} /\ sending = {}
        /\ sinkItem = NoItem

\* C13: a failed input.close or pipeline.close does not keep the later
\* components from being closed, and run() does not return the error.
C13_CloseErrorDoesNotAbort ==
    runErr \in {"input.close", "pipeline.close", "output.close"} =>
        /\ closeCalls = CloseOrder
        /\ runResult = "Ok"

\* C14: IN and OUT never hold more than 4 * thread_num items; a sender that
\* finds its queue full keeps its item and waits until a slot is freed; and
\* a queue only changes by a send adding the sender's item at its end or a
\* receive taking its first item, so that every batch read is in exactly one
\* place until its handling is over.
C14_Bounded ==
    /\ Len(inputQ) <= 4 * thread_num
    /\ Len(outputQ) <= 4 * thread_num
    /\ \A b \in 1..produced : Places(b) = 1 \/ Handled(b)

C14_FullQueueBlocks ==
    /\ (ingestPc = "send" /\ Len(inputQ) = 4 * thread_num) =>
          /\ ingestPc' = "send" /\ held' = held
          /\ inputQ' \in {inputQ, Tail(inputQ)}
    /\ Len(outputQ) = 4 * thread_num =>
          /\ sending \subseteq sending'
          /\ outputQ' \in {outputQ, Tail(outputQ)}
    /\ inputQ' # inputQ =>
          \/ inputQ' = Append(inputQ, held) /\ held' = NoBatch
          \/ inputQ # <<>> /\ inputQ' = Tail(inputQ) /\ Head(inputQ) \in processing'
    /\ outputQ' # outputQ =>
          \/ \E it \in sending : outputQ' = Append(outputQ, it) /\ it \notin sending'
          \/ outputQ # <<>> /\ outputQ' = Tail(outputQ) /\ sinkItem' = Head(outputQ)

C14_QueuesBoundedSendBlocks == []C14_Bounded /\ [][C14_FullQueueBlocks]_vars

\* C14 witness: IN and OUT are full, and the ingest task and a worker each
\* wait in their send with an item.
C14_Witness ==
    /\ Len(inputQ) = 4 * thread_num /\ ingestPc = "send" /\ held # NoBatch
    /\ Len(outputQ) = 4 * thread_num /\ sending # {}

\* C15 as claimed: the in-flight count never exceeds 8 * thread_num + 1.
C15_InFlightAtMost8TPlus1 == InFlight <= 8 * thread_num + 1

\* C15 as amended: the in-flight count never exceeds 9 * thread_num + 2
\* (both queues, one batch per worker, one in the ingest task and one in
\* the sink loop), and a batch in flight is in one place only.
C15_InFlightAtMost9TPlus2 ==
    /\ InFlight <= 9 * thread_num + 2
    /\ InFlight = Cardinality({b \in 1..produced : Places(b) = 1})

\* C15 witness: 9 * thread_num + 2 batches are in flight and the input has
\* more to hand out.
C15_Witness ==
    /\ InFlight = 9 * thread_num + 2
    /\ produced < supply

\* OUT is full, every worker waits in its send to OUT, IN is full and the
\* ingest task waits in its send to IN.
Stalled ==
    /\ Len(outputQ) = 4 * thread_num
    /\ Cardinality(sending) = thread_num
    /\ Len(inputQ) = 4 * thread_num
    /\ ingestPc = "send" /\ held # NoBatch

\* C16: the ingest task holds no batch whenever it is where it reads, and
\* every read finds it holding none; when OUT is full, every worker waits
\* in its send, IN is full and the ingest task waits in its send, nothing
\* is read and nothing but the sink loop moves until the sink loop takes an
\* item from OUT.
C16_ReadsOnlyEmptyHanded ==
    /\ ingestPc = "select" => held = NoBatch
    /\ ingestPc = "send" <=> held # NoBatch

C16_StalledUntilSlotFreed ==
    /\ produced' # produced =>
          /\ held = NoBatch /\ ingestPc = "select"
          /\ produced' = produced + 1 /\ held' = produced'
    /\ Stalled =>
          /\ produced' = produced
          /\ outputQ' = outputQ =>
                UNCHANGED <<ingestPc, held, inputQ, processing, sending, exited>>
          /\ outputQ' # outputQ =>
                outputQ' = Tail(outputQ) /\ sinkItem' = Head(outputQ)

C16_Backpressure == []C16_ReadsOnlyEmptyHanded /\ [][C16_StalledUntilSlotFreed]_vars

\* C16 witness: the sink loop is in a write, both queues are full, the
\* worker and the ingest task wait in their sends, and the input has more
\* batches to hand out.
C16_Witness ==
    /\ Stalled
    /\ runPc = "sink_write" /\ sinkItem # NoItem
    /\ produced < supply

\* C17: IN holds the batches in the order input.read returned them, none
\* missing, and they leave it in that order; a worker takes its next input
\* only when it holds nothing, so with one worker the results enter OUT,
\* and reach the sink loop, in input order; the sink loop takes the items
\* of OUT first in, first out.
C17_InOrder ==
    /\ \A i \in 1..Len(inputQ) : inputQ[i] = produced - Len(inputQ) + i
                                     - (IF held # NoBatch THEN 1 ELSE 0)
    /\ held # NoBatch => held = produced
    /\ \A i \in 1..Len(inputQ) :
          \A b \in processing \cup ItemIds(sending) \cup OutIds \cup {sinkItem.id} :
              b < inputQ[i]

C17_OneAtATime ==
    Started => Cardinality(processing) + Cardinality(sending) + exited <= thread_num

C17_OneWorkerOrder ==
    thread_num = 1 =>
        /\ \A i, j \in 1..Len(outputQ) : i < j => outputQ[i].id < outputQ[j].id
        /\ \A i \in 1..Len(outputQ) :
              /\ sinkItem.id < outputQ[i].id
              /\ \A b \in processing \cup ItemIds(sending) : outputQ[i].id < b
        /\ \A b \in processing \cup ItemIds(sending) : sinkItem.id < b

C17_FifoSteps ==
    /\ inputQ' # inputQ =>
          \/ inputQ' = Append(inputQ, held)
          \/ /\ inputQ # <<>> /\ inputQ' = Tail(inputQ)
             /\ processing' = processing \cup {Head(inputQ)}
             /\ Cardinality(processing) + Cardinality(sending) + exited < thread_num
    /\ outputQ' # outputQ =>
          \/ \E it \in sending : outputQ' = Append(outputQ, it)
          \/ /\ outputQ # <<>> /\ outputQ' = Tail(outputQ)
             /\ sinkItem = NoItem /\ sinkItem' = Head(outputQ)

C17_Ordering ==
    /\ [](C17_InOrder /\ C17_OneAtATime /\ C17_OneWorkerOrder)
    /\ [][C17_FifoSteps]_vars

\* C17 witness: with two workers, the result of batch 2 is in OUT ahead of
\* the result of batch 1.
C17_Witness ==
    /\ thread_num = 2
    /\ Len(outputQ) = 2
    /\ outputQ[1].id = 2 /\ outputQ[2].id = 1

\* C18: at most one output.write call is in progress at any time, whatever
\* thread_num is, and it is the sink loop's; a write returns only to the
\* sink loop; and ack() of an item is invoked only when every write of the
\* item has returned, for that item alone.
C18_OneWriteAtMost ==
    /\ writing \in {0, 1}
    /\ writing = 1 =>
          (runPc = "sink_write" /\ sinkItem # NoItem /\ sinkIdx <= sinkItem.n)
    /\ runPc # "sink_write" => writing = 0

C18_AckAfterWrites ==
    /\ sinkLog' # sinkLog /\ sinkLog' # <<>> =>
          /\ writing = 1 /\ runPc = "sink_write"
          /\ sinkLog' = Append(sinkLog, sinkIdx)
          /\ UNCHANGED <<inputQ, outputQ, workerVars, acks>>
    /\ acks' # acks =>
          /\ writing = 0 /\ writing' = 0
          /\ sinkItem # NoItem
          /\ Len(sinkLog) = sinkItem.n
          /\ acks' = [acks EXCEPT ![sinkItem.id] = @ + 1]

C18_WritesSerialised == []C18_OneWriteAtMost /\ [][C18_AckAfterWrites]_vars

\* C18 witness: with two workers, one in pipeline.process and one in its
\* send, the sink loop is in the second write of an item.
C18_Witness ==
    /\ thread_num = 2
    /\ processing # {} /\ sending # {}
    /\ writing = 1 /\ sinkIdx = 2 /\ sinkItem.n = 2

\* C19: within a kind, a registration of a tag that is already registered
\* is rejected, by a panic in the buffer registry and by an Err in the
\* scalar UDF registry, and leaves the registry as it was; a registration
\* of a free tag enters it and touches nothing else; so each tag maps to
\* the builder of its first registration, whichever way the callers
\* interleave, and BufferConfig::build finds that builder.
C19_FirstRegistrationStays ==
    /\ \A k \in Kinds : \A t \in Tags :
          /\ registry[k][t] # NoBuilder => registry[k][t] = firstReg[k][t]
          /\ lockHolder[k] = 0 => registry[k][t] = firstReg[k][t]
    /\ \A c \in Callers :
          (call[c].op = "build" /\ call[c].result = "Ok") =>
              /\ call[c].builder # NoBuilder
              /\ call[c].builder = firstReg["buffer"][call[c].tag]

C19_DuplicateRejected ==
    /\ \A c \in Callers :
          (callPc[c] = "locked" /\ callPc'[c] # "locked") =>
              LET k == call[c].kind
                  t == call[c].tag
              IN  IF registry[k][t] # NoBuilder
                  THEN /\ registry' = registry
                       /\ k = "buffer" =>
                             (callPc'[c] = "panicked" /\ call'[c].result = "panic")
                       /\ k = "scalar_udf" =>
                             (callPc'[c] = "idle" /\ call'[c].result = "Err")
                  ELSE /\ registry' = [registry EXCEPT ![k][t] = call[c].builder]
                       /\ callPc'[c] = "idle" /\ call'[c].result = "Ok"
    /\ registry' # registry =>
          \E c \in Callers : callPc[c] = "locked" /\ callPc'[c] = "idle"

C19_RegistryUniqueness ==
    []C19_FirstRegistrationStays /\ [][C19_DuplicateRejected]_vars

\* C19 witness: in both registries "memory" maps to builder 1 after a
\* registration of builder 2 under it was rejected, with a panic in the
\* buffer registry and an Err in the scalar UDF registry.
C19_Witness ==
    /\ registry["buffer"]["memory"] = 1
    /\ registry["scalar_udf"]["memory"] = 1
    /\ \E c, d \in Callers :
          /\ call[c] = [op |-> "register", kind |-> "buffer", tag |-> "memory",
                        builder |-> 2, result |-> "panic"]
          /\ call[d] = [op |-> "register", kind |-> "scalar_udf", tag |-> "memory",
                        builder |-> 2, result |-> "Err"]

\* C20: when a buffer is configured, every batch the sink loop writes has
\* been written to the buffer and returned by a buffer read before.
C20_BufferBetweenWorkersAndSink ==
    (buffer_type # "none" /\ runPc = "sink_write" /\ sinkLog # <<>>) =>
        sinkItem.id \in buffered

\* ------------------------------------------------- claims: memory buffer

QueueIds(q) == {q[i].id : i \in 1..Len(q)}

Compatible(items) ==
    \A i, j \in 1..Len(items) : items[i].schema = items[j].schema

RECURSIVE RowsOver(_)
RowsOver(ids) ==
    IF ids = {} THEN 0
    ELSE LET b == CHOOSE x \in ids : TRUE
         IN  RowsOf(b) + RowsOver(ids \ {b})

ResultIds(res) == {res.ids[i] : i \in 1..Len(res.ids)}

\* C21: a read that was notified while the queue holds n >= 1 pairs of one
\* schema empties the queue and returns one merged batch whose length is
\* the sum of the lengths of the n batches, with the n source acks; notified
\* on an empty queue it returns None and changes nothing of the buffer.
C21_ReadDrainsAndMerges ==
    [][\A r \in Readers : ProcessMessages(r) =>
          /\ (memQueue # <<>> /\ Compatible(memQueue)) =>
                /\ memQueue' = <<>>
                /\ readResult'[r].kind = "Some"
                /\ readResult'[r].rows = RowsOver(QueueIds(memQueue))
                /\ Len(readResult'[r].ids) = Len(memQueue)
                /\ ResultIds(readResult'[r]) = QueueIds(memQueue)
          /\ memQueue = <<>> =>
                /\ readResult'[r].kind = "None"
                /\ UNCHANGED <<memQueue, notifyWaiters, notifyPermit,
                               closeToken, pushing, delivered, dropped,
                               srcAcks>>]_vars

\* C21 witness: a read has returned a batch merged from two pairs or more
\* and left the queue empty.
C21_Witness ==
    \E r \in Readers :
        /\ readResult[r].kind = "Some"
        /\ Len(readResult[r].ids) >= 2
        /\ readResult[r].rows = RowsOver(ResultIds(readResult[r]))
        /\ memQueue = <<>>

\* C22: a call of the aggregate ack of a merged batch calls ack() once on
\* each of its source acks and on no other; a source ack is called in no
\* other step.
C22_AckFanOut ==
    [][\A b \in Written :
          srcAcks'[b] = srcAcks[b] +
              Cardinality({r \in Readers :
                              /\ ArrayAckAck(r)
                              /\ b \in ResultIds(readResult[r])})]_vars

\* C22 witness: the source acks of two pairs were each called once, and a
\* reader holds a merged batch it has not acked, whose source acks were
\* not called.
C22_Witness ==
    /\ Cardinality({b \in Written : srcAcks[b] = 1}) >= 2
    /\ \E r \in Readers :
          /\ readResult[r].kind = "Some"
          /\ \A b \in ResultIds(readResult[r]) : srcAcks[b] = 0

\* C23: every pair a write has pushed is either still in the queue or was
\* included in exactly one merged batch a read returned, also when a read
\* failed on incompatible schemas.
C23_WriteNeverDrops ==
    \A b \in 1..written :
        (\A item \in pushing : item.id # b) =>
            \/ b \in QueueIds(memQueue) /\ delivered[b] = 0
            \/ b \notin QueueIds(memQueue) /\ delivered[b] = 1

\* C24: the queue never holds more pairs than the configured capacity.
C24_QueueBounded == Len(memQueue) <= capacity

\* C25: when capacity batches of one schema were written and nothing was
\* read yet, the read woken by the writer's notification returns a merged
\* batch of all of them.
C25_CapacityWritesReadTogether ==
    [][\A r \in Readers :
          ( /\ ProcessMessages(r)
            /\ wokenBy[r] = "write"
            /\ written = capacity
            /\ \A b \in Written : delivered[b] = 0
            /\ dropped = {}
            /\ \A item \in pushing : Compatible(<<item>> \o memQueue)
            /\ Compatible(memQueue) )
          => /\ readResult'[r].kind = "Some"
             /\ Len(readResult'[r].ids) = capacity]_vars

C27_ReadReturnsOnceClosed ==
    \A r \in Readers :
        (closeToken /\ readPc[r] = "waiting") ~> (readPc[r] = "idle")

\* C28: while the buffer is not closed a read that waits is notified, and
\* a queue that is not empty while a read waits is drained.
C28_TimerWakesWaitingReads ==
    /\ \A r \in Readers :
          (readPc[r] = "waiting" /\ ~closeToken) ~> (readPc[r] # "waiting")
    /\ (~closeToken /\ memQueue # <<>> /\ \E r \in Readers : readPc[r] = "waiting")
          ~> (memQueue = <<>>)

\* C28 witness: fewer than capacity - 1 batches were written, the queue is
\* not empty, and the timer has woken a read.
C28_Witness ==
    /\ ~closeToken
    /\ written < capacity - 1
    /\ memQueue # <<>>
    /\ \E r \in Readers : readPc[r] = "notified" /\ wokenBy[r] = "timer"

\* C29: a flush called while a read waits wakes a read, and the permit a
\* flush stores when no read waits is taken by the next read.
C29_FlushWakesRead ==
    /\ [][BufferFlush =>
             ((\E r \in Readers : readPc[r] = "waiting") =>
                 \E r \in Readers :
                     readPc[r] = "waiting" /\ readPc'[r] = "notified")]_vars
    /\ [][(notifyPermit /\ ~notifyPermit') =>
             \E r \in Readers :
                 readPc[r] = "idle" /\ readPc'[r] = "notified"]_vars

\* ------------------------------------------------- claims: input adapters

\* A read that waits and that no step makes return.
ReadBlocked ==
    /\ inReadPc = "reading"
    /\ inQueue = <<>>
    /\ ~inSignalled

\* C30: a read called after close() has returned returns the end-of-input
\* error, and is not blocked.
C30_ReadAfterCloseIsEof ==
    inAfterClose =>
        /\ ~ReadBlocked
        /\ inReadPc = "idle" => inResult = "EOF"

\* ------------------------------------------- claims: memory buffer order

\* The writes of the one writer complete in the order of their ids.
OldestFirst(ids) == \A i, j \in 1..Len(ids) : i < j => ids[i] < ids[j]

\* C40: the pairs of a merged batch, and the source acks its aggregate ack
\* calls, are in the order in which their writes completed, and the queue
\* holds the pairs newest first.
C40_WriteOrderPreserved ==
    /\ \A i, j \in 1..Len(memQueue) : i < j => memQueue[i].id > memQueue[j].id
    /\ \A r \in Readers :
          readResult[r].kind = "Some" =>
              /\ OldestFirst(readResult[r].ids)
              /\ OldestFirst(AckOrder(readResult[r].ids))

\* C40 witness: a read has returned a batch merged from every pair written,
\* three of them.
C40_Witness ==
    \E r \in Readers :
        /\ readResult[r].kind = "Some"
        /\ Len(readResult[r].ids) >= 3
        /\ AckOrder(readResult[r].ids) = <<1, 2, 3>>

\* ------------------------------------------------ claims: stream phases

\* Building, Running, Draining, Closed.
Phase ==
    IF runPc \in {"connect_input", "connect_output"} THEN 0
    ELSE IF runPc \in {"close", "done"} THEN 3
    ELSE IF ingestPc = "stopped" THEN 2
    ELSE 1

\* Once self.close() is reached every task has ended and nothing is in
\* flight.
C35_QuietOnceClosing ==
    Phase = 3 =>
        /\ ingestPc \in {"stopped", "unspawned"}
        /\ held = NoBatch
        /\ processing = {} /\ sending = {}
        /\ sinkItem = NoItem /\ writing = 0
        /\ ingestPc = "stopped" => exited = thread_num

\* The phase never goes back; a stopped ingest task reads, connects and
\* sends no more; nothing is read, processed, written or acked from the
\* call of self.close() on.
C35_ForwardStep ==
    /\ Phase' >= Phase
    /\ ingestPc = "stopped" =>
          /\ UNCHANGED <<ingestPc, produced, held, connOks, connFails>>
          /\ inputQ' # inputQ => (inputQ # <<>> /\ inputQ' = Tail(inputQ))
    /\ Phase = 3 =>
          UNCHANGED <<ingestVars, inputQ, outputQ, workerVars, sinkVars,
                      histVars>>

\* C35: the stream moves only forward through Building, Running, Draining,
\* Closed: after the ingest task has received a signal, EOF or a Config
\* error no read or connect is made and nothing enters IN, and once
\* self.close() is called nothing is read, processed or written.
C35_OnlyForward == []C35_QuietOnceClosing /\ [][C35_ForwardStep]_vars

\* C35 witness: a stream that ran, was stopped by a trigger while input was
\* left, drained, and called close.
C35_Witness ==
    /\ closeCalls # <<>>
    /\ stopReason # "none"
    /\ produced >= 1 /\ produced < supply
    /\ \E b \in 1..supply : outcome[b] = "delivered"

\* ------------------------------------------- claims: empty process result

\* An item with an empty list in the sink loop: no write is made for it.
C36_EmptyItemNotWritten ==
    (runPc = "sink_write" /\ sinkItem.n = 0) =>
        /\ sinkLog = <<>>
        /\ writing = 0
        /\ sinkIdx > sinkItem.n

\* A worker whose process returned Ok sends the result to OUT, the empty
\* list too; the sink loop acks an empty item once, and no write is made.
C36_EmptyStep ==
    /\ \A b \in processing :
          (b \notin processing' /\ outcome'[b] = outcome[b]) =>
              \E item \in sending' : item.id = b /\ item \notin sending
    /\ (runPc = "sink_write" /\ sinkItem.n = 0 /\ runPc' # runPc) =>
          /\ acks'[sinkItem.id] = acks[sinkItem.id] + 1
          /\ sinkLog' = <<>> /\ writing' = 0

\* C36: when pipeline.process returns Ok with no output batch the worker
\* still sends ([], ack) to OUT and the sink loop calls ack() without any
\* output.write.
C36_EmptyResultAcked == []C36_EmptyItemNotWritten /\ [][C36_EmptyStep]_vars

\* C36 witness: the sink loop received an item whose list is empty.
C36_Witness ==
    /\ runPc = "sink_write"
    /\ sinkItem.id # NoBatch
    /\ sinkItem.n = 0
    /\ acks[sinkItem.id] = 0

\* ------------------------------------------------ claims: input connect

\* C31: however often connect() is called on an input, at most one of its
\* background receive tasks (HTTP server, MQTT event loop, Redis subscriber
\* or list puller) is alive, so that a message of the source is queued once.
C31_OneReceiveTask == inTasks <= 1

\* ------------------------------------------------ claims: outputs

\* The requests and sleeps of a send: at most retry_count + 1 requests,
\* none after a success, a sleep of 100 ms doubled each time before every
\* retry and none after the last request, and the error returned is the one
\* of the last request.
C32_BoundedBackoff ==
    /\ Len(attempts) <= retryCfg + 1
    /\ \A i \in 1..Len(attempts) - 1 : attempts[i] # "ok"
    /\ \A k \in 1..Len(waits) :
          waits[k] = IF k = 1 THEN 100 ELSE 2 * waits[k - 1]
    /\ outPc \in {"request", "sleep"} =>
          /\ sendResult = "none"
          /\ Len(waits) = Len(attempts)
    /\ sendResult = "Ok" =>
          /\ attempts # <<>>
          /\ attempts[Len(attempts)] = "ok"
          /\ Len(waits) = Len(attempts) - 1
    /\ (sendResult \in {"Process", "Connection"} /\ attempts # <<>>) =>
          /\ Len(attempts) = retryCfg + 1
          /\ \A i \in 1..Len(attempts) : attempts[i] # "ok"
          /\ sendResult = ErrorOf(attempts[Len(attempts)])
          /\ Len(waits) = retryCfg

\* C32: HttpOutput.send makes at most retry_count + 1 requests, returns Ok
\* at the first success, sleeps 100 ms x 2^(k-1) before the k-th retry and
\* not after the last request, returns the error of the last request when
\* all failed, and always returns.
C32_SendRetriesAndReturns ==
    /\ []C32_BoundedBackoff
    /\ (outPc # "idle") ~> (outPc = "idle")

\* C32 witness: a send that failed retry_count + 1 = 3 times, slept 100 ms
\* and 200 ms in between, and returned the last error.
C32_Witness ==
    /\ outPc = "idle"
    /\ retryCfg = 2
    /\ attempts = <<"error", "error", "status">>
    /\ waits = <<100, 200>>
    /\ sendResult = "Process"

\* C33: once close() has returned, the HTTP, Kafka or SQL output holds no
\* client, producer or connection, a write of a non-empty batch called
\* afterwards returns an error and sends nothing, and a second close()
\* returns Ok.
C33_CloseReleases ==
    outCloses # <<>> =>
        /\ ~outClient
        /\ outAfterClose =>
              /\ outSent = 0
              /\ (outPc = "idle" /\ outLen > 0) => outResult # "Ok"
        /\ Len(outCloses) >= 2 => outCloses[2] = "Ok"

\* ------------------------------------------------ claims: SqlInput

\* The flag is set exactly when a read has returned the result.
C34_ConsumedIffReturned == read <=> returned >= 1

\* A read called with the flag set returns Done and runs no statement; one
\* called with the flag clear runs them; a read that fails leaves the flag
\* as it was.
C34_ReadStep ==
    /\ (sqlCalls' = sqlCalls + 1 /\ read) =>
          /\ queries' = queries
          /\ sqlPc' = sqlPc
          /\ \E t \in SqlCallers : sqlResult' = [sqlResult EXCEPT ![t] = "Done"]
    /\ (sqlCalls' = sqlCalls + 1 /\ ~read) =>
          \E t \in SqlCallers : sqlPc[t] = "idle" /\ sqlPc'[t] = "query"
    /\ \A t \in SqlCallers :
          (sqlPc[t] = "query" /\ sqlPc'[t] = "idle") =>
              \/ sqlResult'[t] = "batch" /\ read'
              \/ /\ sqlResult'[t] \in {"Config", "Reading", "Processing"}
                 /\ read' = read

\* C34: SqlInput is one-shot: the first read that succeeds returns the
\* result, every read called afterwards returns the end-of-input error
\* without running the query, and a read that fails does not mark the
\* input consumed, so the next read runs the query again.
C34_OneShot == []C34_ConsumedIffReturned /\ [][C34_ReadStep]_vars

\* C34 witness: a read failed, the next one returned the batch, and the
\* one after it returned Done.
C34_Witness ==
    /\ sqlCalls = 3
    /\ queries = 2
    /\ returned = 1
    /\ \E t \in SqlCallers : sqlResult[t] = "Done"

\* C39: of the tasks that call SqlInput.read concurrently at most one is
\* returned the result batch; the others get the end-of-input error.
C39_OneCallerGetsBatch == returned <= 1

\* ------------------------------------------------ claims: SqlProcessor

\* One task at most is inside process_window_data, the one with the lock.
C37_Serialised ==
    /\ Cardinality({t \in SqlWorkers : procPc[t] = "query"}) <= 1
    /\ \A t \in SqlWorkers : procPc[t] = "query" <=> stateLock = t

\* A batch that does not trigger is added to window_data and process
\* returns the empty list; a batch that triggers has the query run over
\* window_data and itself and leaves window_data empty, whatever the query
\* comes to.
C37_WindowStep ==
    \A t \in SqlWorkers :
        /\ (procPc[t] = "wait" /\ procPc'[t] # "wait" /\ procArg[t].timed) =>
              LET pushed == Append(window_data, [id |-> procArg[t].id,
                                                 schema |-> procArg[t].schema])
              IN IF procResult'[t].trig
                 THEN /\ window_data' = <<>>
                      /\ procPc'[t] = "query"
                      /\ procResult'[t].over = DataIds(pushed)
                 ELSE /\ window_data' = pushed
                      /\ procPc'[t] = "idle"
                      /\ procResult'[t].kind = "Empty"
        /\ (procPc[t] = "query" /\ procPc'[t] # "query") =>
              /\ window_data = <<>>
              /\ window_data' = <<>>

\* C37: in windowed mode a batch that does not trigger makes process
\* return the empty list and window_data grow by that batch; a batch that
\* triggers has the query run over every batch accumulated since the last
\* trigger and itself, and window_data is empty afterwards, also when the
\* query fails; concurrent process calls are serialised by the state lock.
C37_WindowAccumulates == []C37_Serialised /\ [][C37_WindowStep]_vars

\* The tumbling trigger of a batch with timestamp ts >= 0: the watermark
\* ts + watermark_delay_ms has reached the end of the window of ts.
C38_TriggerOfTimestamp ==
    window_type = "tumbling" =>
        \A t \in SqlWorkers :
            (procResult[t].timed /\ procResult[t].ts >= 0) =>
                /\ procResult[t].trig <=>
                      (procResult[t].ts % size_ms) + watermark_delay_ms
                          >= size_ms
                /\ watermark_delay_ms = 0 => ~procResult[t].trig
                /\ watermark_delay_ms >= size_ms => procResult[t].trig

\* With no watermark delay a tumbling window never gives a batch back.
C38_NeverShrinks ==
    (window_type = "tumbling" /\ watermark_delay_ms = 0) =>
        /\ Len(window_data') >= Len(window_data)
        /\ \A t \in SqlWorkers :
              (procPc[t] = "wait" /\ procPc'[t] # "wait" /\ procArg[t].timed) =>
                  Len(window_data') = Len(window_data) + 1

\* C38: the tumbling trigger depends on the timestamp ts >= 0 of the
\* arriving batch only: it fires iff ts + watermark_delay_ms >=
\* (ts div size_ms + 1) * size_ms; with watermark_delay_ms = 0 it never
\* fires and window_data only grows, with watermark_delay_ms >= size_ms it
\* fires on every batch.
C38_TumblingTrigger == []C38_TriggerOfTimestamp /\ [][C38_NeverShrinks]_vars

\* C38 witness: a tumbling window of 3 ms with a delay of 1 ms let the
\* batch of timestamp 1 pass and fired on the batch of timestamp 5.
C38_Witness ==
    /\ window_type = "tumbling" /\ size_ms = 3 /\ watermark_delay_ms = 1
    /\ \E t, u \in SqlWorkers :
          /\ procResult[t].timed /\ procResult[t].ts = 1 /\ ~procResult[t].trig
          /\ procResult[u].timed /\ procResult[u].ts = 5 /\ procResult[u].trig

====
